---- MODULE Spec2Model ----
(***************************************************************************)
(* QuickDraw-Screenshot: the controller QuickDrawScreenshot (src/main.py)  *)
(* and its command classes (src/src/commands.py) as a state machine.       *)
(* One action per event handler; the Tk canvas is modelled by its display  *)
(* list (items), the selection rectangle item and the four handle items.   *)
(***************************************************************************)
EXTENDS Integers, Sequences, FiniteSets, TLC

(* ------------------------------ bounds --------------------------------- *)
\* Size of the virtual screen (get_monitors): pointer positions are 0..W-1.
ScreenW == 21
ScreenH == 21
\* Commands a session may commit before the drawing tools stop being used.
MaxCmds == 2

\* Texts the user may have typed when the field loses focus.
TypedTexts == {"a"}
\* Colours the colour dialog may return.
PickColors == {"#0000FF"}

(* -------------------------- program constants -------------------------- *)
\* Python None for an optional integer; lies outside every coordinate range.
None == 0 - 1000
\* handle_size in create_resize_handles / update_resize_handles.
HandleSize == 10
\* stroke_width in copy_to_clipboard.
StrokeWidth == 1
\* max_line_thickness
MaxLineThickness == 10
Tools == {"move", "rectangle", "arrow", "text"}

VARIABLES
    state, is_screenshot_in_progress, is_drawing_mode, pending_gui,
    rect_canvas, bindings, keys_bound, toolbar_shown, button_down,
    full_screenshot, screenshot, clipboard,
    start_x, start_y, end_x, end_y,
    selection_rect, drawing_area, resize_handles, resizing,
    dragging, drag_start_x, drag_start_y,
    current_tool, current_color, line_thickness, font_size,
    undo_stack, redo_stack, items, text_box, text_entry,
    color_picker_is_open,
    screenshot_key, refresh_rate, update_interval, settings_file,
    queue, settings_after, settings_dialog, tray_pc, tray_settings, mainloop,
    the_command,
    hotkey_down, _last_hotkey_state

lifeVars == <<state, is_screenshot_in_progress, is_drawing_mode, pending_gui>>
guiVars == <<rect_canvas, bindings, keys_bound, toolbar_shown>>
imageVars == <<full_screenshot, screenshot>>
pointVars == <<start_x, start_y, end_x, end_y>>
areaVars == <<selection_rect, drawing_area, resize_handles>>
dragVars == <<dragging, drag_start_x, drag_start_y>>
\* The settings kept beside the tool state: the hotkey, the refresh rate in
\* tenths of a hertz, update_interval = 1 / refresh_rate as the pair
\* <<numerator, denominator>> in the same unit, and the content of
\* settings.json (<<>> while there is no file).
settingVars == <<screenshot_key, refresh_rate, update_interval, settings_file>>
\* The tray icon and what it talks to: self.queue, the pending
\* root.after(0, show_settings_dialog), the open settings dialog, the
\* position of the tray thread in its menu callback, the dictionary its
\* save_settings has built, and whether root.mainloop() is still running.
trayVars == <<queue, settings_after, settings_dialog, tray_pc, tray_settings, mainloop>>
\* the_command: a command object whose methods are called one by one on the
\* canvas, apart from the controller (<<>> when there is none).
\* The hotkey as GetAsyncKeyState reports it (held down or not) and what
\* the last poll saw.
hotkeyVars == <<hotkey_down, _last_hotkey_state>>
toolVars == <<current_tool, current_color, line_thickness, font_size, settingVars,
              trayVars, the_command, hotkeyVars>>
stackVars == <<undo_stack, redo_stack>>
textVars == <<text_box, text_entry>>

vars == <<lifeVars, guiVars, button_down, imageVars, clipboard, pointVars, areaVars, resizing,
          dragVars, toolVars, stackVars, items, textVars, color_picker_is_open>>

(* ------------------------------ helpers -------------------------------- *)
Min(a, b) == IF a <= b THEN a ELSE b
Max(a, b) == IF a >= b THEN a ELSE b
Abs(a) == IF a >= 0 THEN a ELSE 0 - a

\* The end points as they come, without min/max.
NormalizeNone(ax, ay, bx, by) == <<ax, ay, bx, by>>

\* x1, y1 = min(..), min(..); x2, y2 = max(..), max(..)
Normalize(ax, ay, bx, by) == <<Min(ax, bx), Min(ay, by), Max(ax, bx), Max(ay, by)>>

\* point_in_drawing_area
point_in_drawing_area(x, y) ==
    /\ drawing_area[1] <= x /\ x <= drawing_area[3]
    /\ drawing_area[2] <= y /\ y <= drawing_area[4]

(* ------------------------------- canvas -------------------------------- *)
\* A canvas item: id, kind, coords c = <<x1, y1, x2, y2>>, tags, colour, width,
\* text.  The two items of an arrow keep the arrow's end points as c and the
\* routine that computed their outline as by (their outline is a function of
\* both); canvas.move translates c.
Item(id, kind, c, tags, color, width, text, by) ==
    [id |-> id, kind |-> kind, c |-> c, tags |-> tags, color |-> color,
     width |-> width, text |-> text, by |-> by]

ItemIds(its) == {its[i].id : i \in 1..Len(its)}

\* Ids held by the commands of a stack (shape_id / text_id).  Item ids are
\* 1, 2, ...; 0 stands for None and for the id of an item that was deleted:
\* Tk never hands out an id twice, so such an id names no item ever again.
CmdIds(cmd) ==
    IF cmd.cls = "DrawCommand"
    THEN {cmd.shape_id[i] : i \in 1..Len(cmd.shape_id)} \ {0}
    ELSE {cmd.text_id} \ {0}
StackIds(st) == UNION {CmdIds(st[i]) : i \in 1..Len(st)}

\* The id of a new item.  Tk draws every id from one counter and only their
\* distinctness matters: the model names the item of a command by the least
\* positive id that is neither on the canvas nor held by a command, and an
\* item the controller creates itself (a preview shape, the dashed text box)
\* by the greatest negative id that is not in use, so that the id of a
\* command's item does not depend on the previews drawn before it.
FreshId(used) ==
    CHOOSE n \in 1..(Cardinality(used) + 1) :
        n \notin used /\ \A m \in 1..(n - 1) : m \in used
FreshOwnId(used) ==
    0 - (CHOOSE n \in 1..(Cardinality(used) + 1) :
            (0 - n) \notin used /\ \A m \in 1..(n - 1) : (0 - m) \in used)

\* canvas.delete(id, ...) and canvas.delete(tag)
CanvasDelete(its, ids) == SelectSeq(its, LAMBDA it : it.id \notin ids)
CanvasDeleteTag(its, tag) == SelectSeq(its, LAMBDA it : tag \notin it.tags)

MoveCoords(c, dx, dy) == <<c[1] + dx, c[2] + dy, c[3] + dx, c[4] + dy>>

\* for item in find_withtag("drawing"): canvas.move(item, dx, dy)
MoveDrawingItems(its, dx, dy) ==
    [i \in 1..Len(its) |->
        IF "drawing" \in its[i].tags
        THEN [its[i] EXCEPT !.c = MoveCoords(its[i].c, dx, dy)]
        ELSE its[i]]

\* The four handle squares around the corners, in the order of `corners`.
HandleCoords(x1, y1, x2, y2) ==
    LET h == HandleSize \div 2
        sq(x, y) == <<x - h, y - h, x + h, y + h>>
    IN  <<sq(x1, y1), sq(x2, y1), sq(x2, y2), sq(x1, y2)>>

(* ------------------------------ commands ------------------------------- *)
\* DrawCommand.__init__; shape_id is the sequence of the ids it holds
\* (<<>> for None, one id for a rectangle, shaft and head for an arrow).
DrawCommand(tool, shape_id, x1, y1, x2, y2, color, thickness) ==
    [cls |-> "DrawCommand", tool |-> tool, shape_id |-> shape_id,
     x1 |-> x1, y1 |-> y1, x2 |-> x2, y2 |-> y2,
     color |-> color, thickness |-> thickness]

\* TextCommand.__init__; text_id 0 is None.
TextCommand(text, x, y, color, font, width, height) ==
    [cls |-> "TextCommand", text |-> text, x |-> x, y |-> y, color |-> color,
     font |-> font, width |-> width, height |-> height, text_id |-> 0]

\* DrawCommand.execute: creates the item(s) on top of the display list and
\* stores their ids in shape_id.  held: the ids that are not free.
DrawCommand_execute(cmd, its, held) ==
    LET c == <<cmd.x1, cmd.y1, cmd.x2, cmd.y2>>
        id1 == FreshId(held \cup ItemIds(its))
        id2 == FreshId(held \cup ItemIds(its) \cup {id1})
    IN  IF cmd.tool = "rectangle"
        THEN [cmd |-> [cmd EXCEPT !.shape_id = <<id1>>],
              items |-> Append(its, Item(id1, "rectangle", c, {"drawing"},
                                         cmd.color, cmd.thickness, "", "execute"))]
        ELSE IF cmd.tool = "arrow"
        THEN [cmd |-> [cmd EXCEPT !.shape_id = <<id1, id2>>],
              items |-> its \o
                  <<Item(id1, "line", c, {"drawing"}, cmd.color, cmd.thickness,
                         "", "execute"),
                    Item(id2, "polygon", c, {"drawing"}, cmd.color, cmd.thickness,
                         "", "execute")>>]
        ELSE [cmd |-> cmd, items |-> its]

\* DrawCommand.undo: deletes the item(s) shape_id names; shape_id keeps the
\* ids of the deleted items (written 0).
DrawCommand_undo(cmd, its) ==
    [cmd |-> [cmd EXCEPT !.shape_id = [i \in 1..Len(cmd.shape_id) |-> 0]],
     items |-> CanvasDelete(its, CmdIds(cmd))]

\* TextCommand.execute: create_text(...) then tag_raise.
TextCommand_execute(cmd, its, held) ==
    LET id1 == FreshId(held \cup ItemIds(its))
    IN  [cmd |-> [cmd EXCEPT !.text_id = id1],
         items |-> Append(its, Item(id1, "text", <<cmd.x, cmd.y, cmd.x, cmd.y>>,
                                    {"text", "drawing"}, cmd.color, cmd.width,
                                    cmd.text, "execute"))]

\* TextCommand.undo
TextCommand_undo(cmd, its) ==
    IF cmd.text_id # 0
    THEN [cmd |-> [cmd EXCEPT !.text_id = 0],
          items |-> CanvasDelete(its, {cmd.text_id})]
    ELSE [cmd |-> cmd, items |-> its]

\* Dynamic dispatch command.execute() / command.undo()
Execute(cmd, its, held) ==
    IF cmd.cls = "DrawCommand" THEN DrawCommand_execute(cmd, its, held)
    ELSE TextCommand_execute(cmd, its, held)
UndoCommand(cmd, its) ==
    IF cmd.cls = "DrawCommand" THEN DrawCommand_undo(cmd, its)
    ELSE TextCommand_undo(cmd, its)

\* Ids that are not free for a new item.
HeldIds(us, rs, tb) == StackIds(us) \cup StackIds(rs) \cup ({tb} \ {0})

(* ------------------------------- Init ---------------------------------- *)
\* __init__ followed by start(): no settings file, toolbar created hidden.
Init ==
    /\ state = "idle"
    /\ is_screenshot_in_progress = FALSE
    /\ is_drawing_mode = FALSE
    /\ pending_gui = FALSE
    /\ rect_canvas = FALSE
    /\ bindings = "none"
    /\ keys_bound = FALSE
    /\ toolbar_shown = FALSE
    /\ button_down = FALSE
    /\ full_screenshot = FALSE
    /\ screenshot = <<>>
    /\ clipboard = <<>>
    /\ start_x = None /\ start_y = None /\ end_x = None /\ end_y = None
    /\ selection_rect = <<>>
    /\ drawing_area = <<>>
    /\ resize_handles = <<>>
    /\ resizing = None
    /\ dragging = FALSE
    /\ drag_start_x = None /\ drag_start_y = None
    /\ current_tool = "move"
    /\ current_color = "red"
    /\ line_thickness = 2
    /\ font_size = 12
    /\ undo_stack = <<>>
    /\ redo_stack = <<>>
    /\ items = <<>>
    /\ text_box = 0
    /\ text_entry = <<>>
    /\ color_picker_is_open = FALSE
    /\ screenshot_key = "print screen"
    /\ refresh_rate = 600
    /\ update_interval = <<10, 600>>
    /\ settings_file = <<>>
    /\ queue = <<>>
    /\ settings_after = FALSE
    /\ settings_dialog = FALSE
    /\ tray_pc = "menu"
    /\ tray_settings = <<>>
    /\ mainloop = TRUE
    /\ the_command = <<>>
    /\ hotkey_down = FALSE
    /\ _last_hotkey_state = FALSE

(* --------------------------- session start ----------------------------- *)
\* initiate_screenshot, called for a hotkey trigger: accepted in state idle
\* only, where the GUI set-up is deferred with root.after(0, ...); in any
\* other state the call returns at once.  (One deferred set-up at a time
\* is followed.)
initiate_screenshot ==
    /\ ~(state = "idle" /\ pending_gui)
    /\ IF state = "idle"
       THEN /\ state' = "selecting"
            /\ pending_gui' = TRUE
       ELSE UNCHANGED <<state, pending_gui>>
    /\ UNCHANGED <<is_screenshot_in_progress, is_drawing_mode, guiVars, button_down,
                   imageVars, clipboard, pointVars, areaVars, resizing, dragVars, toolVars,
                   stackVars, items, textVars, color_picker_is_open>>

\* The user presses and releases the hotkey.
press_hotkey ==
    /\ ~hotkey_down
    /\ hotkey_down' = TRUE
    /\ UNCHANGED <<lifeVars, guiVars, button_down, imageVars, clipboard, pointVars,
                   areaVars, resizing, dragVars, current_tool, current_color,
                   line_thickness, font_size, settingVars, trayVars, the_command,
                   _last_hotkey_state, stackVars, items, textVars,
                   color_picker_is_open>>
release_hotkey ==
    /\ hotkey_down
    /\ hotkey_down' = FALSE
    /\ UNCHANGED <<lifeVars, guiVars, button_down, imageVars, clipboard, pointVars,
                   areaVars, resizing, dragVars, current_tool, current_color,
                   line_thickness, font_size, settingVars, trayVars, the_command,
                   _last_hotkey_state, stackVars, items, textVars,
                   color_picker_is_open>>

\* A poll that triggers on every press it sees, in whatever state, with
\* the call accepted in whatever state.
poll_hotkey_state_any_state ==
    /\ ~(hotkey_down /\ ~_last_hotkey_state /\ pending_gui)
    /\ IF hotkey_down /\ ~_last_hotkey_state
       THEN /\ state' = "selecting"
            /\ pending_gui' = TRUE
       ELSE UNCHANGED <<state, pending_gui>>
    /\ _last_hotkey_state' = hotkey_down
    /\ UNCHANGED <<is_screenshot_in_progress, is_drawing_mode, guiVars, button_down,
                   imageVars, clipboard, pointVars, areaVars, resizing, dragVars,
                   current_tool, current_color, line_thickness, font_size,
                   settingVars, trayVars, the_command, hotkey_down, stackVars, items,
                   textVars, color_picker_is_open>>

\* poll_hotkey_state, every 50 ms: on the poll that first sees the hotkey
\* down in state idle it schedules initiate_screenshot with root.after(0,
\* ...), which runs next and tests the state again; it then remembers what
\* it saw.
poll_hotkey_state ==
    /\ ~(hotkey_down /\ ~_last_hotkey_state /\ state = "idle" /\ pending_gui)
    /\ IF hotkey_down /\ ~_last_hotkey_state /\ state = "idle"
       THEN /\ state' = IF state = "idle" THEN "selecting" ELSE state
            /\ pending_gui' = IF state = "idle" THEN TRUE ELSE pending_gui
       ELSE UNCHANGED <<state, pending_gui>>
    /\ _last_hotkey_state' = hotkey_down
    /\ UNCHANGED <<is_screenshot_in_progress, is_drawing_mode, guiVars, button_down,
                   imageVars, clipboard, pointVars, areaVars, resizing, dragVars,
                   current_tool, current_color, line_thickness, font_size,
                   settingVars, trayVars, the_command, hotkey_down, stackVars, items,
                   textVars, color_picker_is_open>>

\* A widget of a destroyed canvas is destroyed with it; the attribute keeps
\* the dead widget.
DestroyedWith(te) == IF te = <<>> THEN te ELSE [te EXCEPT !.alive = FALSE]

\* The commands of a stack once their canvas is destroyed: the items their
\* ids named are gone.
DestroyedStack(st) ==
    [i \in 1..Len(st) |->
        IF st[i].cls = "DrawCommand"
        THEN [st[i] EXCEPT !.shape_id = [j \in 1..Len(st[i].shape_id) |-> 0]]
        ELSE [st[i] EXCEPT !.text_id = 0]]

\* _initiate_screenshot_gui without the two clear() of reset_screenshot_state.
_initiate_screenshot_gui_keeps_stacks ==
    /\ pending_gui
    /\ pending_gui' = FALSE
    /\ state' = "selecting"
    /\ is_screenshot_in_progress' = TRUE
    /\ undo_stack' = DestroyedStack(undo_stack)
    /\ redo_stack' = DestroyedStack(redo_stack)
    /\ start_x' = None /\ start_y' = None /\ end_x' = None /\ end_y' = None
    /\ screenshot' = <<>>
    /\ toolbar_shown' = FALSE
    /\ full_screenshot' = TRUE
    /\ rect_canvas' = TRUE
    /\ items' = <<>>
    /\ selection_rect' = <<0, 0, 0, 0>>
    /\ text_entry' = DestroyedWith(text_entry)
    /\ bindings' = "screenshot"
    /\ keys_bound' = TRUE
    /\ button_down' = FALSE
    /\ text_box' = 0
    /\ UNCHANGED <<is_drawing_mode, clipboard, drawing_area, resize_handles, resizing,
                   dragVars, toolVars, color_picker_is_open>>

\* _initiate_screenshot_gui: reset_screenshot_state, setup_screenshot_canvas,
\* bind_screenshot_events, bind_keys.
_initiate_screenshot_gui ==
    /\ pending_gui
    /\ pending_gui' = FALSE
    /\ state' = "selecting"
    /\ is_screenshot_in_progress' = TRUE
    /\ undo_stack' = <<>> /\ redo_stack' = <<>>
    /\ start_x' = None /\ start_y' = None /\ end_x' = None /\ end_y' = None
    /\ screenshot' = <<>>
    /\ toolbar_shown' = FALSE
    /\ full_screenshot' = TRUE
    /\ rect_canvas' = TRUE
    /\ items' = <<>>
    /\ selection_rect' = <<0, 0, 0, 0>>
    /\ text_entry' = DestroyedWith(text_entry)
    /\ bindings' = "screenshot"
    /\ keys_bound' = TRUE
    /\ button_down' = FALSE
    /\ text_box' = 0
    /\ UNCHANGED <<is_drawing_mode, clipboard, drawing_area, resize_handles, resizing,
                   dragVars, toolVars, color_picker_is_open>>

\* _initiate_screenshot_gui when get_monitors() or sct.grab() raises in
\* setup_screenshot_canvas: state and the in-progress flag are already set
\* and reset_screenshot_state has run (the old canvas, if any, is
\* destroyed); no handler catches the exception, so nothing after the
\* failing call runs: no image, no canvas, no bindings.
_initiate_screenshot_gui_capture_fails ==
    /\ pending_gui
    /\ pending_gui' = FALSE
    /\ state' = "selecting"
    /\ is_screenshot_in_progress' = TRUE
    /\ undo_stack' = <<>> /\ redo_stack' = <<>>
    /\ start_x' = None /\ start_y' = None /\ end_x' = None /\ end_y' = None
    /\ screenshot' = <<>>
    /\ toolbar_shown' = FALSE
    /\ rect_canvas' = FALSE
    /\ items' = <<>>
    /\ text_entry' = DestroyedWith(text_entry)
    /\ bindings' = "none"
    /\ button_down' = FALSE
    /\ text_box' = 0
    /\ UNCHANGED <<is_drawing_mode, keys_bound, full_screenshot, clipboard,
                   areaVars, resizing, dragVars, toolVars, color_picker_is_open>>

(* ------------------------------ selecting ------------------------------ *)
\* update_selection: returns early without start/end or when throttled
\* (time.monotonic() - last_update_time < update_interval); else moves the
\* selection rectangle item to the normalized rectangle.
update_selection(sx, sy, ex, ey, throttled, old) ==
    IF sx = None \/ sy = None \/ ex = None \/ ey = None THEN old
    ELSE IF throttled THEN old
    ELSE Normalize(sx, sy, ex, ey)

\* on_button_press (selecting): a press follows the previous update by more
\* than update_interval, so its update is not throttled.
on_button_press(p) ==
    /\ rect_canvas /\ bindings = "screenshot" /\ ~button_down
    /\ ~color_picker_is_open
    /\ button_down' = TRUE
    /\ start_x' = p[1] /\ end_x' = p[1]
    /\ start_y' = p[2] /\ end_y' = p[2]
    /\ selection_rect' = update_selection(p[1], p[2], p[1], p[2], FALSE, selection_rect)
    /\ UNCHANGED <<lifeVars, guiVars, imageVars, clipboard, drawing_area, resize_handles, resizing,
                   dragVars, toolVars, stackVars, items, textVars,
                   color_picker_is_open>>

\* on_move_press (selecting)
on_move_press(p, throttled) ==
    /\ rect_canvas /\ bindings = "screenshot" /\ button_down
    /\ end_x' = p[1] /\ end_y' = p[2]
    /\ selection_rect' = update_selection(start_x, start_y, p[1], p[2], throttled,
                                          selection_rect)
    /\ UNCHANGED <<lifeVars, guiVars, button_down, imageVars, clipboard, start_x, start_y,
                   drawing_area, resize_handles, resizing, dragVars, toolVars,
                   stackVars, items, textVars, color_picker_is_open>>

\* The end point on_button_release works with: a release on the start point
\* is moved by one pixel in both axes.
ReleaseEnd(sx, sy, x, y) ==
    IF x = sx /\ y = sy THEN <<x + 1, y + 1>> ELSE <<x, y>>

\* on_button_release (selecting) with setup_drawing_mode, create_resize_handles
\* and show_toolbar.
on_button_release(p, throttled) ==
    /\ rect_canvas /\ bindings = "screenshot" /\ button_down
    /\ button_down' = FALSE
    /\ IF start_x = None \/ start_y = None
       THEN UNCHANGED <<lifeVars, guiVars, imageVars, clipboard, pointVars, areaVars, resizing,
                        dragVars, toolVars, stackVars, items, textVars,
                        color_picker_is_open>>
       ELSE LET e == ReleaseEnd(start_x, start_y, p[1], p[2])
                r == Normalize(start_x, start_y, e[1], e[2])
            IN  /\ end_x' = e[1] /\ end_y' = e[2]
                /\ selection_rect' = update_selection(start_x, start_y, e[1], e[2],
                                                      throttled, selection_rect)
                /\ screenshot' = r
                /\ bindings' = "drawing"
                /\ drawing_area' = r
                /\ is_drawing_mode' = TRUE
                /\ resize_handles' = HandleCoords(r[1], r[2], r[3], r[4])
                /\ toolbar_shown' = TRUE
                /\ state' = "drawing"
                /\ is_screenshot_in_progress' = FALSE
                /\ UNCHANGED <<pending_gui, rect_canvas, keys_bound, full_screenshot,
                               clipboard, start_x, start_y, resizing, dragVars, toolVars,
                               stackVars, items, textVars, color_picker_is_open>>

(* --------------------------- drawing: press ---------------------------- *)
\* The handle loop never matching, and the loop keeping its last match.
HitHandleNone(x, y) == None
HitHandleLast(x, y) ==
    LET hits == {i \in 1..Len(resize_handles) :
                    /\ resize_handles[i][1] <= x /\ x <= resize_handles[i][3]
                    /\ resize_handles[i][2] <= y /\ y <= resize_handles[i][4]}
    IN  IF hits = {} THEN None
        ELSE (CHOOSE i \in hits : \A j \in hits : i >= j) - 1

\* The handle loop of on_press: index of the first handle square that
\* contains (x, y), or None.
HitHandle(x, y) ==
    LET hits == {i \in 1..Len(resize_handles) :
                    /\ resize_handles[i][1] <= x /\ x <= resize_handles[i][3]
                    /\ resize_handles[i][2] <= y /\ y <= resize_handles[i][4]}
    IN  IF hits = {} THEN None
        ELSE (CHOOSE i \in hits : \A j \in hits : i <= j) - 1

\* end_text_entry without the test `if text`.
EndTextEntryCommitsEmpty(te, its, us, rs) ==
    LET cmd == TextCommand(te.text, te.x, te.y, current_color, font_size,
                           te.width, te.height)
        ex == Execute(cmd, its, HeldIds(us, rs, text_box))
    IN  [items |-> CanvasDeleteTag(ex.items, "text_box"),
         undo_stack |-> Append(us, ex.cmd),
         redo_stack |-> <<>>]

\* end_text_entry without redo_stack.clear().
EndTextEntryKeepsRedo(te, its, us, rs) ==
    LET cmd == TextCommand(te.text, te.x, te.y, current_color, font_size,
                           te.width, te.height)
        ex == Execute(cmd, its, HeldIds(us, rs, text_box))
    IN  IF te.text # ""
        THEN [items |-> CanvasDeleteTag(ex.items, "text_box"),
              undo_stack |-> Append(us, ex.cmd),
              redo_stack |-> rs]
        ELSE [items |-> CanvasDeleteTag(its, "text_box"),
              undo_stack |-> us,
              redo_stack |-> rs]

\* end_text_entry on an open text field te: a non-empty text is committed as
\* a TextCommand (execute, append to undo_stack, clear redo_stack); the field
\* and every "text_box" item are removed.
EndTextEntry(te, its, us, rs) ==
    LET cmd == TextCommand(te.text, te.x, te.y, current_color, font_size,
                           te.width, te.height)
        ex == Execute(cmd, its, HeldIds(us, rs, text_box))
    IN  IF te.text # ""
        THEN [items |-> CanvasDeleteTag(ex.items, "text_box"),
              undo_stack |-> Append(us, ex.cmd),
              redo_stack |-> <<>>]
        ELSE [items |-> CanvasDeleteTag(its, "text_box"),
              undo_stack |-> us,
              redo_stack |-> rs]

\* start_text_entry without `if self.text_entry: self.end_text_entry()`.
start_text_entry_keeps_open(x, y) ==
    IF ~point_in_drawing_area(x, y)
    THEN UNCHANGED <<bindings, pointVars, stackVars, items, textVars>>
    ELSE LET id1 == FreshOwnId(ItemIds(items))
         IN  /\ bindings' = "textbox"
             /\ start_x' = x /\ start_y' = y
             /\ text_box' = id1
             /\ items' = Append(items,
                    Item(id1, "rectangle", <<x, y, x, y>>, {"text_box"},
                         current_color, 1, "", "start_text_entry"))
             /\ UNCHANGED <<end_x, end_y, stackVars, text_entry>>

\* start_text_entry: inside the drawing area it ends an open text edit,
\* rebinds motion/release to the text box and creates the dashed box.
\* text_entry.get() on a field whose canvas was destroyed raises: the
\* handler is left with nothing changed.
start_text_entry(x, y) ==
    IF ~point_in_drawing_area(x, y) \/ (text_entry # <<>> /\ ~text_entry.alive)
    THEN UNCHANGED <<bindings, pointVars, stackVars, items, textVars>>
    ELSE LET e == IF text_entry # <<>>
                  THEN EndTextEntry(text_entry, items, undo_stack, redo_stack)
                  ELSE [items |-> items, undo_stack |-> undo_stack,
                        redo_stack |-> redo_stack]
             id1 == FreshOwnId(ItemIds(e.items))
         IN  /\ undo_stack' = e.undo_stack
             /\ redo_stack' = e.redo_stack
             /\ text_entry' = <<>>
             /\ bindings' = "textbox"
             /\ start_x' = x /\ start_y' = y
             /\ text_box' = id1
             /\ items' = Append(e.items,
                    Item(id1, "rectangle", <<x, y, x, y>>, {"text_box"},
                         current_color, 1, "", "start_text_entry"))
             /\ UNCHANGED <<end_x, end_y>>

\* start_draw
start_draw(x, y) ==
    /\ start_x' = x - drawing_area[1]
    /\ start_y' = y - drawing_area[2]
    /\ UNCHANGED <<end_x, end_y>>

\* on_press (drawing): handles first, then the current tool.
on_press(p) ==
    /\ rect_canvas /\ bindings = "drawing" /\ ~button_down
    /\ ~color_picker_is_open
    /\ (HitHandle(p[1], p[2]) = None /\ current_tool # "move")
          => Len(undo_stack) + Len(redo_stack) < MaxCmds
    /\ button_down' = TRUE
    /\ IF HitHandle(p[1], p[2]) # None
       THEN /\ resizing' = HitHandle(p[1], p[2])
            /\ toolbar_shown' = FALSE
            /\ UNCHANGED <<rect_canvas, bindings, keys_bound, pointVars, dragVars,
                           stackVars, items, textVars>>
       ELSE IF current_tool = "move"
       THEN /\ IF point_in_drawing_area(p[1], p[2])
               THEN /\ dragging' = TRUE
                    /\ drag_start_x' = p[1]
                    /\ drag_start_y' = p[2]
               ELSE UNCHANGED dragVars
            /\ UNCHANGED <<guiVars, resizing, pointVars, stackVars, items, textVars>>
       ELSE IF current_tool = "text"
       THEN /\ start_text_entry(p[1], p[2])
            /\ UNCHANGED <<rect_canvas, keys_bound, toolbar_shown, resizing, dragVars>>
       ELSE /\ start_draw(p[1], p[2])
            /\ UNCHANGED <<guiVars, resizing, dragVars, stackVars, items, textVars>>
    /\ UNCHANGED <<lifeVars, imageVars, clipboard, areaVars, toolVars, color_picker_is_open>>

(* ------------------------ drawing: move, resize ------------------------ *)
\* drag_selection on one axis without the clamp.
ClampDeltaNone(d, lo, hi, size) == d

\* The clamp of drag_selection on one axis: the delta that keeps [lo, hi]
\* inside [0, size].
ClampDelta(d, lo, hi, size) ==
    IF lo + d < 0 THEN 0 - lo
    ELSE IF hi + d > size THEN size - hi
    ELSE d

\* drag_selection: the clamped delta, the moved drawing area and the moved
\* "drawing" items for a pointer at (x, y).
DragResult(x, y) ==
    LET dx == ClampDelta(x - drag_start_x, drawing_area[1], drawing_area[3], ScreenW)
        dy == ClampDelta(y - drag_start_y, drawing_area[2], drawing_area[4], ScreenH)
    IN  [dx |-> dx, dy |-> dy,
         area |-> MoveCoords(drawing_area, dx, dy),
         items |-> MoveDrawingItems(items, dx, dy)]

\* drag_selection: moves the selection rectangle, every "drawing" item and
\* the handles by the clamped delta and stores the new drawing area (the
\* caller guards with self.dragging; the drag start point is set by the
\* calling handler: the pointer in on_drag, None in on_release).
drag_selection(x, y) ==
    LET d == DragResult(x, y)
    IN  /\ selection_rect' = d.area
        /\ items' = d.items
        /\ resize_handles' = HandleCoords(d.area[1], d.area[2], d.area[3], d.area[4])
        /\ drawing_area' = d.area

\* The rectangle resize_selection computes: the corner of handle r of the
\* shown selection rectangle is set to (x, y), then min/max per axis.
ResizedRect(c, r, x, y) ==
    LET x1 == IF r = 0 \/ r = 3 THEN x ELSE c[1]
        y1 == IF r = 0 \/ r = 1 THEN y ELSE c[2]
        x2 == IF r = 1 \/ r = 2 THEN x ELSE c[3]
        y2 == IF r = 2 \/ r = 3 THEN y ELSE c[4]
    IN  <<Min(x1, x2), Min(y1, y2), Max(x1, x2), Max(y1, y2)>>

\* resize_selection without update_resize_handles.
resize_selection_keeps_handles(x, y) ==
    LET r == ResizedRect(selection_rect, resizing, x, y)
    IN  /\ selection_rect' = r
        /\ UNCHANGED resize_handles
        /\ drawing_area' = r

\* resize_selection
resize_selection(x, y) ==
    LET r == ResizedRect(selection_rect, resizing, x, y)
    IN  /\ selection_rect' = r
        /\ resize_handles' = HandleCoords(r[1], r[2], r[3], r[4])
        /\ drawing_area' = r

(* --------------------------- drawing: shapes --------------------------- *)
\* draw_shape: replaces the temporary shape by one from the start point to
\* the pointer (rectangle, or draw_arrow's line and polygon).
draw_shape(x, y) ==
    IF start_x = None \/ ~point_in_drawing_area(x, y)
    THEN UNCHANGED items
    ELSE LET its == CanvasDeleteTag(items, "temp_shape")
             ax == drawing_area[1]
             ay == drawing_area[2]
             cx == x - ax
             cy == y - ay
             held == ItemIds(its) \cup ({text_box} \ {0})
             id1 == FreshOwnId(held)
             id2 == FreshOwnId(held \cup {id1})
             tags == {"temp_shape", "drawing"}
         IN  IF current_tool = "rectangle"
             THEN items' = Append(its,
                     Item(id1, "rectangle",
                          <<Min(start_x, cx) + ax, Min(start_y, cy) + ay,
                            Max(start_x, cx) + ax, Max(start_y, cy) + ay>>,
                          tags, current_color, line_thickness, "", "draw_shape"))
             ELSE IF current_tool = "arrow"
             THEN LET c == <<start_x + ax, start_y + ay, cx + ax, cy + ay>>
                  IN  items' = its \o
                        <<Item(id1, "line", c, tags, current_color, line_thickness,
                               "", "draw_arrow"),
                          Item(id2, "polygon", c, tags, current_color,
                               line_thickness, "", "draw_arrow")>>
             ELSE items' = its

\* end_draw: commits a DrawCommand from the start point to the release point.
end_draw(x, y) ==
    IF start_x = None \/ ~point_in_drawing_area(x, y)
    THEN UNCHANGED <<pointVars, stackVars, items>>
    ELSE LET its == CanvasDeleteTag(items, "temp_shape")
             ax == drawing_area[1]
             ay == drawing_area[2]
             command == DrawCommand(current_tool, <<>>,
                                    start_x + ax, start_y + ay,
                                    (x - ax) + ax, (y - ay) + ay,
                                    current_color, line_thickness)
             ex == Execute(command, its,
                           HeldIds(undo_stack, redo_stack, text_box))
         IN  /\ items' = ex.items
             /\ undo_stack' = Append(undo_stack, ex.cmd)
             /\ redo_stack' = <<>>
             /\ start_x' = None /\ start_y' = None
             /\ UNCHANGED <<end_x, end_y>>

\* on_drag (drawing) with the button held; a motion without the button only
\* runs update_idletasks.
on_drag(p) ==
    /\ rect_canvas /\ bindings = "drawing" /\ button_down
    /\ IF resizing # None
       THEN /\ resize_selection(p[1], p[2])
            /\ UNCHANGED <<items, dragVars>>
       ELSE IF dragging /\ current_tool = "move"
       THEN /\ drag_selection(p[1], p[2])
            /\ drag_start_x' = p[1]
            /\ drag_start_y' = p[2]
            /\ UNCHANGED dragging
       ELSE IF current_tool \notin {"text", "move"}
       THEN /\ draw_shape(p[1], p[2])
            /\ UNCHANGED <<areaVars, dragVars>>
       ELSE UNCHANGED <<areaVars, items, dragVars>>
    /\ UNCHANGED <<lifeVars, guiVars, button_down, imageVars, clipboard, pointVars, resizing,
                   toolVars, stackVars, textVars, color_picker_is_open>>

\* on_release (drawing)
on_release(p) ==
    /\ rect_canvas /\ bindings = "drawing" /\ button_down
    /\ button_down' = FALSE
    /\ IF resizing # None
       THEN /\ resize_selection(p[1], p[2])
            /\ toolbar_shown' = TRUE
            /\ resizing' = None
            /\ UNCHANGED <<pointVars, dragVars, stackVars, items>>
       ELSE IF dragging /\ current_tool = "move"
       THEN /\ drag_selection(p[1], p[2])
            /\ dragging' = FALSE
            /\ drag_start_x' = None
            /\ drag_start_y' = None
            /\ toolbar_shown' = TRUE
            /\ UNCHANGED <<pointVars, resizing, stackVars>>
       ELSE IF current_tool \notin {"text", "move"}
       THEN /\ end_draw(p[1], p[2])
            /\ UNCHANGED <<toolbar_shown, areaVars, resizing, dragVars>>
       ELSE UNCHANGED <<toolbar_shown, areaVars, resizing, dragVars, pointVars,
                        stackVars, items>>
    /\ UNCHANGED <<lifeVars, rect_canvas, bindings, keys_bound, imageVars, clipboard, toolVars,
                   textVars, color_picker_is_open>>

(* ----------------------------- drawing: text --------------------------- *)
\* resize_text_box (motion while the text box is dragged); coords() with a
\* None start point raises and changes nothing.
resize_text_box(p) ==
    /\ rect_canvas /\ bindings = "textbox" /\ button_down
    /\ IF start_x = None
       THEN UNCHANGED items
       ELSE items' = [i \in 1..Len(items) |->
                        IF items[i].id = text_box
                        THEN [items[i] EXCEPT !.c = <<start_x, start_y, p[1], p[2]>>]
                        ELSE items[i]]
    /\ UNCHANGED <<lifeVars, guiVars, button_down, imageVars, clipboard, pointVars, areaVars,
                   resizing, dragVars, toolVars, stackVars, textVars,
                   color_picker_is_open>>

\* The text field finalize_text_box places over the box with coords c.
TextField(c) ==
    [x |-> Min(c[1], c[3]), y |-> Min(c[2], c[4]),
     width |-> Abs(c[3] - c[1]), height |-> Abs(c[4] - c[2]),
     text |-> "", alive |-> TRUE]

BoxCoords == (CHOOSE i \in 1..Len(items) : items[i].id = text_box)

\* finalize_text_box (release that ends the text box drag)
finalize_text_box(p) ==
    /\ rect_canvas /\ bindings = "textbox" /\ button_down
    /\ button_down' = FALSE
    /\ text_entry' = TextField(items[BoxCoords].c)
    /\ bindings' = "drawing"
    /\ UNCHANGED <<lifeVars, rect_canvas, keys_bound, toolbar_shown, imageVars, clipboard,
                   pointVars, areaVars, resizing, dragVars, toolVars, stackVars,
                   items, text_box, color_picker_is_open>>

\* Typing into the open text field (on_text_change does nothing).
on_text_change(t) ==
    /\ text_entry # <<>> /\ text_entry.alive /\ text_entry.text = ""
    /\ Len(undo_stack) + Len(redo_stack) < MaxCmds
    /\ ~color_picker_is_open
    /\ text_entry' = [text_entry EXCEPT !.text = t]
    /\ UNCHANGED <<lifeVars, guiVars, button_down, imageVars, clipboard, pointVars, areaVars,
                   resizing, dragVars, toolVars, stackVars, items, text_box,
                   color_picker_is_open>>

\* end_text_entry as the <FocusOut> handler of the text field.
end_text_entry ==
    /\ text_entry # <<>> /\ text_entry.alive
    /\ LET e == EndTextEntry(text_entry, items, undo_stack, redo_stack)
       IN  /\ items' = e.items
           /\ undo_stack' = e.undo_stack
           /\ redo_stack' = e.redo_stack
    /\ text_entry' = <<>>
    /\ text_box' = 0
    /\ bindings' = "drawing"
    /\ UNCHANGED <<lifeVars, rect_canvas, keys_bound, toolbar_shown, button_down,
                   imageVars, clipboard, pointVars, areaVars, resizing, dragVars, toolVars,
                   color_picker_is_open>>

(* ------------------------------ undo / redo ---------------------------- *)
\* undo taking the oldest command, undo_stack.pop(0).
UndoResultOldest(its, us, rs) ==
    IF us = <<>>
    THEN [items |-> its, undo_stack |-> us, redo_stack |-> rs]
    ELSE LET u == UndoCommand(us[1], its)
         IN  [items |-> CanvasDeleteTag(u.items, "temp_shape"),
              undo_stack |-> SubSeq(us, 2, Len(us)),
              redo_stack |-> Append(rs, u.cmd)]

\* undo: pops the last command, command.undo(), pushes it on redo_stack and
\* deletes the temporary shape; nothing when undo_stack is empty.
UndoResult(its, us, rs) ==
    IF us = <<>>
    THEN [items |-> its, undo_stack |-> us, redo_stack |-> rs]
    ELSE LET u == UndoCommand(us[Len(us)], its)
         IN  [items |-> CanvasDeleteTag(u.items, "temp_shape"),
              undo_stack |-> SubSeq(us, 1, Len(us) - 1),
              redo_stack |-> Append(rs, u.cmd)]

\* redo taking the command undone first, redo_stack.pop(0).
RedoResultOldest(its, us, rs, tb) ==
    IF rs = <<>>
    THEN [items |-> its, undo_stack |-> us, redo_stack |-> rs]
    ELSE LET ex == Execute(rs[1], its, HeldIds(us, rs, tb))
         IN  [items |-> CanvasDeleteTag(ex.items, "temp_shape"),
              undo_stack |-> Append(us, ex.cmd),
              redo_stack |-> SubSeq(rs, 2, Len(rs))]

\* redo: pops the last undone command, command.execute(), appends it to
\* undo_stack and deletes the temporary shape; nothing when redo_stack is
\* empty.
RedoResult(its, us, rs, tb) ==
    IF rs = <<>>
    THEN [items |-> its, undo_stack |-> us, redo_stack |-> rs]
    ELSE LET rest == SubSeq(rs, 1, Len(rs) - 1)
             ex == Execute(rs[Len(rs)], its, HeldIds(us, rs, tb))
         IN  [items |-> CanvasDeleteTag(ex.items, "temp_shape"),
              undo_stack |-> Append(us, ex.cmd),
              redo_stack |-> rest]

\* undo (Ctrl+Z or the toolbar button)
undo ==
    /\ keys_bound /\ ~color_picker_is_open
    /\ LET r == UndoResult(items, undo_stack, redo_stack)
       IN  /\ items' = r.items
           /\ undo_stack' = r.undo_stack
           /\ redo_stack' = r.redo_stack
    /\ IF undo_stack # <<>>
       THEN start_x' = None /\ start_y' = None
       ELSE UNCHANGED <<start_x, start_y>>
    /\ UNCHANGED <<lifeVars, guiVars, button_down, imageVars, clipboard, end_x, end_y, areaVars,
                   resizing, dragVars, toolVars, textVars, color_picker_is_open>>

\* redo (Ctrl+Y)
redo ==
    /\ keys_bound /\ ~color_picker_is_open
    /\ LET r == RedoResult(items, undo_stack, redo_stack, text_box)
       IN  /\ items' = r.items
           /\ undo_stack' = r.undo_stack
           /\ redo_stack' = r.redo_stack
    /\ IF redo_stack # <<>>
       THEN start_x' = None /\ start_y' = None
       ELSE UNCHANGED <<start_x, start_y>>
    /\ UNCHANGED <<lifeVars, guiVars, button_down, imageVars, clipboard, end_x, end_y, areaVars,
                   resizing, dragVars, toolVars, textVars, color_picker_is_open>>

(* --------------------------- end of a session -------------------------- *)
\* safe_cancel_screenshot: the canvas is destroyed, the images are released.
safe_cancel_screenshot ==
    /\ state' = "idle"
    /\ is_screenshot_in_progress' = FALSE
    /\ is_drawing_mode' = FALSE
    /\ rect_canvas' = FALSE
    /\ items' = <<>>
    /\ selection_rect' = <<>>
    /\ bindings' = "none"
    /\ button_down' = FALSE
    /\ text_entry' = DestroyedWith(text_entry)
    /\ toolbar_shown' = FALSE
    /\ start_x' = None /\ start_y' = None /\ end_x' = None /\ end_y' = None
    /\ screenshot' = <<>>
    /\ full_screenshot' = FALSE
    /\ keys_bound' = FALSE
    /\ text_box' = 0
    /\ undo_stack' = DestroyedStack(undo_stack)
    /\ redo_stack' = DestroyedStack(redo_stack)
    /\ UNCHANGED <<pending_gui, clipboard, drawing_area, resize_handles, resizing,
                   dragVars, toolVars, color_picker_is_open>>

\* handle_escape without the colour picker branch.
handle_escape_no_picker ==
    IF state \in {"selecting", "drawing"}
    THEN safe_cancel_screenshot
    ELSE UNCHANGED vars

\* handle_escape: closes an open colour picker, else cancels a session that
\* is selecting or drawing, else does nothing.
handle_escape ==
    /\ IF color_picker_is_open
       THEN /\ color_picker_is_open' = FALSE
            /\ UNCHANGED <<lifeVars, guiVars, button_down, imageVars, clipboard, pointVars,
                           areaVars, resizing, dragVars, toolVars, stackVars, items,
                           textVars>>
       ELSE IF state \in {"selecting", "drawing"}
       THEN safe_cancel_screenshot
       ELSE UNCHANGED <<lifeVars, guiVars, button_down, imageVars, clipboard, pointVars,
                        areaVars, resizing, dragVars, toolVars, stackVars, items,
                        textVars, color_picker_is_open>>

\* reset_for_new_screenshot without undo_stack.clear() and redo_stack.clear().
reset_for_new_screenshot_keeps_stacks ==
    /\ state' = "idle"
    /\ is_drawing_mode' = FALSE
    /\ is_screenshot_in_progress' = FALSE
    /\ undo_stack' = DestroyedStack(undo_stack)
    /\ redo_stack' = DestroyedStack(redo_stack)
    /\ full_screenshot' = FALSE
    /\ screenshot' = <<>>
    /\ rect_canvas' = FALSE
    /\ items' = <<>>
    /\ selection_rect' = <<>>
    /\ bindings' = "none"
    /\ button_down' = FALSE
    /\ toolbar_shown' = FALSE
    /\ start_x' = None /\ start_y' = None /\ end_x' = None /\ end_y' = None
    /\ drawing_area' = <<>>
    /\ text_entry' = <<>>
    /\ resize_handles' = <<>>
    /\ resizing' = None
    /\ keys_bound' = FALSE
    /\ text_box' = 0
    /\ UNCHANGED <<pending_gui, dragVars, toolVars, color_picker_is_open>>

\* reset_for_new_screenshot (no step of it failing)
reset_for_new_screenshot ==
    /\ state' = "idle"
    /\ is_drawing_mode' = FALSE
    /\ is_screenshot_in_progress' = FALSE
    /\ undo_stack' = <<>> /\ redo_stack' = <<>>
    /\ full_screenshot' = FALSE
    /\ screenshot' = <<>>
    /\ rect_canvas' = FALSE
    /\ items' = <<>>
    /\ selection_rect' = <<>>
    /\ bindings' = "none"
    /\ button_down' = FALSE
    /\ toolbar_shown' = FALSE
    /\ start_x' = None /\ start_y' = None /\ end_x' = None /\ end_y' = None
    /\ drawing_area' = <<>>
    /\ text_entry' = <<>>
    /\ resize_handles' = <<>>
    /\ resizing' = None
    /\ keys_bound' = FALSE
    /\ text_box' = 0
    /\ UNCHANGED <<pending_gui, dragVars, toolVars, color_picker_is_open>>

\* The steps of reset_for_new_screenshot that call into Tk, PIL or the
\* keyboard hooks.
TeardownSteps == {"image_close", "canvas_destroy", "toolbar_forget",
                  "withdraw", "entry_destroy", "unbind_keys"}

\* reset_for_new_screenshot when one step raises.  The steps inside their
\* own try/except (closing the images, destroying the canvas, hiding the
\* toolbar, destroying the text field) are skipped and the teardown goes
\* on; root.withdraw() and unbind_keys() are only inside the outer try,
\* whose handler calls set_screenshot_key and nothing else: whatever
\* follows the failing call is not run.
reset_for_new_screenshot_fails(step) ==
    /\ state' = "idle"
    /\ is_drawing_mode' = FALSE
    /\ is_screenshot_in_progress' = FALSE
    /\ undo_stack' = <<>> /\ redo_stack' = <<>>
    /\ full_screenshot' = FALSE
    /\ screenshot' = <<>>
    /\ rect_canvas' = FALSE
    /\ items' = <<>>
    /\ selection_rect' = <<>>
    /\ bindings' = "none"
    /\ button_down' = FALSE
    /\ toolbar_shown' = FALSE
    /\ text_box' = 0
    /\ IF step = "withdraw"
       THEN /\ text_entry' = DestroyedWith(text_entry)
            /\ UNCHANGED <<pointVars, drawing_area, resize_handles, resizing,
                           keys_bound>>
       ELSE /\ start_x' = None /\ start_y' = None /\ end_x' = None /\ end_y' = None
            /\ drawing_area' = <<>>
            /\ text_entry' = <<>>
            /\ resize_handles' = <<>>
            /\ resizing' = None
            /\ keys_bound' = IF step = "unbind_keys" THEN keys_bound ELSE FALSE
    /\ UNCHANGED <<pending_gui, dragVars, toolVars, color_picker_is_open>>

\* The shape of a command drawn without the stroke border offset.
ExportShapeNoStroke(cmd, bbox) ==
    IF cmd.cls = "DrawCommand"
    THEN LET a == <<cmd.x1 - bbox[1], cmd.y1 - bbox[2],
                    cmd.x2 - bbox[1], cmd.y2 - bbox[2]>>
         IN  [kind |-> cmd.tool,
              c |-> IF cmd.tool = "rectangle"
                    THEN Normalize(a[1], a[2], a[3], a[4]) ELSE a,
              color |-> cmd.color, width |-> cmd.thickness, text |-> ""]
    ELSE LET ax == cmd.x - bbox[1]
             ay == cmd.y - bbox[2]
         IN  [kind |-> "text", c |-> <<ax, ay, ax, ay>>, color |-> cmd.color,
              width |-> cmd.font, text |-> cmd.text]

\* The shape copy_to_clipboard draws for a command: its stored coordinates
\* minus the top-left corner of the crop box plus the stroke border.
ExportShape(cmd, bbox) ==
    IF cmd.cls = "DrawCommand"
    THEN LET a == <<cmd.x1 - bbox[1] + StrokeWidth, cmd.y1 - bbox[2] + StrokeWidth,
                    cmd.x2 - bbox[1] + StrokeWidth, cmd.y2 - bbox[2] + StrokeWidth>>
         IN  [kind |-> cmd.tool,
              c |-> IF cmd.tool = "rectangle"
                    THEN Normalize(a[1], a[2], a[3], a[4]) ELSE a,
              color |-> cmd.color, width |-> cmd.thickness, text |-> ""]
    ELSE LET ax == cmd.x - bbox[1] + StrokeWidth
             ay == cmd.y - bbox[2] + StrokeWidth
         IN  [kind |-> "text", c |-> <<ax, ay, ax, ay>>, color |-> cmd.color,
              width |-> cmd.font, text |-> cmd.text]

\* The image copy_to_clipboard composes: the crop of the drawing area inside
\* a border of stroke_width pixels, then one shape per command of undo_stack.
Composite(us, area, border) ==
    LET bbox == Normalize(area[1], area[2], area[3], area[4])
    IN  [size |-> <<(bbox[3] - bbox[1]) + 2 * StrokeWidth,
                    (bbox[4] - bbox[2]) + 2 * StrokeWidth>>,
         border |-> border,
         shapes |-> [i \in 1..Len(us) |-> ExportShape(us[i], bbox)]]

\* copy_to_clipboard without the test of is_drawing_mode: it composes and
\* publishes whenever there is a drawing area to unpack (with none the
\* unpacking raises and nothing is changed).
copy_to_clipboard_any_mode ==
    /\ keys_bound /\ ~color_picker_is_open
    /\ IF drawing_area = <<>>
       THEN UNCHANGED <<lifeVars, guiVars, button_down, imageVars, clipboard, pointVars,
                        areaVars, resizing, dragVars, toolVars, stackVars, items,
                        textVars, color_picker_is_open>>
       ELSE /\ clipboard' = Composite(undo_stack, drawing_area, current_color)
            /\ reset_for_new_screenshot

\* copy_to_clipboard (Ctrl+C or the toolbar button): outside drawing mode it
\* returns at once; else it publishes the composite and resets.
copy_to_clipboard ==
    /\ keys_bound /\ ~color_picker_is_open
    /\ IF ~is_drawing_mode
       THEN UNCHANGED <<lifeVars, guiVars, button_down, imageVars, clipboard, pointVars,
                        areaVars, resizing, dragVars, toolVars, stackVars, items,
                        textVars, color_picker_is_open>>
       ELSE /\ clipboard' = Composite(undo_stack, drawing_area, current_color)
            /\ reset_for_new_screenshot

\* A failed clipboard write that tears the session down all the same.
copy_to_clipboard_write_fails_resets ==
    /\ keys_bound /\ ~color_picker_is_open
    /\ is_drawing_mode
    /\ clipboard' \in {clipboard, <<>>}
    /\ reset_for_new_screenshot

\* copy_to_clipboard when copy_image_to_clipboard raises: the composite is
\* built, OpenClipboard raises (the clipboard is as before) or
\* SetClipboardData raises after EmptyClipboard (the clipboard is empty);
\* nothing catches the exception, so reset_for_new_screenshot is not
\* reached.
copy_to_clipboard_write_fails ==
    /\ keys_bound /\ ~color_picker_is_open
    /\ is_drawing_mode
    /\ clipboard' \in {clipboard, <<>>}
    /\ UNCHANGED <<lifeVars, guiVars, button_down, imageVars, pointVars, areaVars,
                   resizing, dragVars, toolVars, stackVars, items, textVars,
                   color_picker_is_open>>

\* copy_to_clipboard in drawing mode when a step of the teardown raises.
copy_to_clipboard_teardown_fails(step) ==
    /\ keys_bound /\ ~color_picker_is_open
    /\ is_drawing_mode
    /\ clipboard' = Composite(undo_stack, drawing_area, current_color)
    /\ reset_for_new_screenshot_fails(step)

\* reset_tool_state (the close button of the toolbar)
reset_tool_state ==
    /\ toolbar_shown /\ ~button_down /\ ~color_picker_is_open
    /\ reset_for_new_screenshot
    /\ UNCHANGED clipboard

(* ------------------------------- toolbar ------------------------------- *)
\* set_tool that also forgets the undone commands.
set_tool_clears_redo(tool) ==
    /\ toolbar_shown /\ ~button_down /\ ~color_picker_is_open
    /\ current_tool' = tool
    /\ redo_stack' = <<>>
    /\ UNCHANGED <<lifeVars, guiVars, button_down, imageVars, clipboard, pointVars, areaVars,
                   resizing, dragVars, current_color, line_thickness, font_size,
                   settingVars, trayVars, the_command, hotkeyVars, undo_stack, items,
                   textVars, color_picker_is_open>>

\* set_tool
set_tool(tool) ==
    /\ toolbar_shown /\ ~button_down /\ ~color_picker_is_open
    /\ current_tool' = tool
    /\ UNCHANGED <<lifeVars, guiVars, button_down, imageVars, clipboard, pointVars, areaVars,
                   resizing, dragVars, current_color, line_thickness, font_size,
                   settingVars, trayVars, the_command, hotkeyVars, stackVars, items,
                   textVars, color_picker_is_open>>

\* open_color_picker -> ColorPicker.open: the modal colour dialog is shown.
open_color_picker ==
    /\ toolbar_shown /\ ~button_down /\ ~color_picker_is_open
    /\ color_picker_is_open' = TRUE
    /\ UNCHANGED <<lifeVars, guiVars, button_down, imageVars, clipboard, pointVars, areaVars,
                   resizing, dragVars, toolVars, stackVars, items, textVars>>

\* The colour dialog returns: color_callback(color) for a chosen colour
\* ("" stands for a cancelled dialog), then ColorPicker.close.
color_callback(color) ==
    /\ color_picker_is_open
    /\ color_picker_is_open' = FALSE
    /\ current_color' = IF color # "" THEN color ELSE current_color
    /\ UNCHANGED <<lifeVars, guiVars, button_down, imageVars, clipboard, pointVars, areaVars,
                   resizing, dragVars, current_tool, line_thickness, font_size,
                   settingVars, trayVars, the_command, hotkeyVars, stackVars, items,
                   textVars>>

(* --------------------------- arrow geometry ---------------------------- *)
\* Angles are counted in steps of 30 degrees (0..11), lengths in
\* thousandths of a pixel; cos and sin to three decimals.
Cos1000(k) ==
    LET t == <<1000, 866, 500, 0, 0 - 500, 0 - 866,
               0 - 1000, 0 - 866, 0 - 500, 0, 500, 866>>
    IN  t[(k % 12) + 1]
Sin1000(k) == Cos1000(k + 9)

\* math.atan2(dy, dx) for a vector along an axis (atan2(0, 0) is 0).
Atan2Axis(dy, dx) ==
    CASE dy = 0 /\ dx >= 0 -> 0
      [] dx = 0 /\ dy > 0 -> 3
      [] dy = 0 /\ dx < 0 -> 6
      [] dx = 0 /\ dy < 0 -> 9

AxisAligned(c) == c[1] = c[3] \/ c[2] = c[4]

\* The arrow DrawCommand.execute puts on the canvas for the endpoints c and
\* the width w: the line from p1 to p2 less 0.8 head sizes, and the
\* triangle with its base corners one head size from p2 at 30 degrees on
\* either side of the shaft.
DrawCommand_execute_arrow(c, w) ==
    LET arrow_head_size == Max(w * 3, 8)
        angle == Atan2Axis(c[4] - c[2], c[3] - c[1])
        x_diff == (arrow_head_size * 8 * Cos1000(angle)) \div 10
        y_diff == (arrow_head_size * 8 * Sin1000(angle)) \div 10
    IN  [shaft |-> <<1000 * c[1], 1000 * c[2],
                     1000 * c[3] - x_diff, 1000 * c[4] - y_diff>>,
         head |-> << <<1000 * c[3], 1000 * c[4]>>,
                     <<1000 * c[3] - arrow_head_size * Cos1000(angle + 11),
                       1000 * c[4] - arrow_head_size * Sin1000(angle + 11)>>,
                     <<1000 * c[3] - arrow_head_size * Cos1000(angle + 1),
                       1000 * c[4] - arrow_head_size * Sin1000(angle + 1)>> >>]

\* An arrow head with its base arrow_length behind p2 and half_width to
\* either side of the shaft, as draw_arrow and draw_pil_arrow compute it.
ArrowWithBase(c, arrow_length, half_width) ==
    LET angle == Atan2Axis(c[4] - c[2], c[3] - c[1])
        x_diff == arrow_length * Cos1000(angle)
        y_diff == arrow_length * Sin1000(angle)
    IN  [shaft |-> <<1000 * c[1], 1000 * c[2],
                     1000 * c[3] - x_diff, 1000 * c[4] - y_diff>>,
         head |-> << <<1000 * c[3], 1000 * c[4]>>,
                     <<1000 * c[3] - x_diff + half_width * Sin1000(angle),
                       1000 * c[4] - y_diff - half_width * Cos1000(angle)>>,
                     <<1000 * c[3] - x_diff - half_width * Sin1000(angle),
                       1000 * c[4] - y_diff + half_width * Cos1000(angle)>> >>]

\* draw_arrow: the preview arrow of draw_shape.
draw_arrow(c, w) == ArrowWithBase(c, Max(w * 3, 8), w * 2)

\* draw_pil_arrow: the arrow of the export.
draw_pil_arrow(c, w) == ArrowWithBase(c, Max(w * 3, 8), Max(w * 2, 6))

\* The arrow a "line" item of the canvas stands for, by the code that
\* made it.
CanvasArrow(it) ==
    IF it.by = "execute" THEN DrawCommand_execute_arrow(it.c, it.width)
    ELSE draw_arrow(it.c, it.width)

(* ------------------------------ settings ------------------------------ *)
\* The text of an entry field is a sequence of characters.
Digits == {"0", "1", "2", "3", "4", "5", "6", "7", "8", "9"}
DigitVal(c) ==
    CASE c = "0" -> 0 [] c = "1" -> 1 [] c = "2" -> 2 [] c = "3" -> 3
      [] c = "4" -> 4 [] c = "5" -> 5 [] c = "6" -> 6 [] c = "7" -> 7
      [] c = "8" -> 8 [] c = "9" -> 9
IsDigits(s) == s # <<>> /\ \A i \in 1..Len(s) : s[i] \in Digits

RECURSIVE DigitsValue(_)
DigitsValue(s) ==
    IF s = <<>> THEN 0
    ELSE 10 * DigitsValue(SubSeq(s, 1, Len(s) - 1)) + DigitVal(s[Len(s)])

\* int(text): the value of a decimal numeral with an optional sign; ok is
\* FALSE where int raises ValueError.
ParseInt(s) ==
    IF IsDigits(s) THEN [ok |-> TRUE, v |-> DigitsValue(s)]
    ELSE IF s # <<>> /\ s[1] = "-" /\ IsDigits(Tail(s))
    THEN [ok |-> TRUE, v |-> 0 - DigitsValue(Tail(s))]
    ELSE IF s # <<>> /\ s[1] = "+" /\ IsDigits(Tail(s))
    THEN [ok |-> TRUE, v |-> DigitsValue(Tail(s))]
    ELSE [ok |-> FALSE, v |-> 0]

\* float(text) for numerals with at most one digit after the point, in
\* tenths; ok is FALSE where float raises ValueError.
ParseFloat(s) ==
    LET dots == {i \in 1..Len(s) : s[i] = "."}
    IN  IF IsDigits(s) THEN [ok |-> TRUE, v |-> 10 * DigitsValue(s)]
        ELSE IF /\ Cardinality(dots) = 1
                /\ Len(s) >= 3 /\ s[Len(s) - 1] = "."
                /\ IsDigits(SubSeq(s, 1, Len(s) - 2))
                /\ s[Len(s)] \in Digits
        THEN [ok |-> TRUE,
              v |-> 10 * DigitsValue(SubSeq(s, 1, Len(s) - 2)) + DigitVal(s[Len(s)])]
        ELSE [ok |-> FALSE, v |-> 0]

\* str.lower() on the hotkey names the dialog is given.
Lower(k) == IF k = "Print Screen" THEN "print screen" ELSE k

\* The dictionary save_settings dumps to settings.json.
SettingsRecord(key, color, font, thickness, rate) ==
    [screenshot_key |-> key, color |-> color, font_size |-> font,
     line_thickness |-> thickness, refresh_rate |-> rate]

\* What the user may have in the entries of the settings dialog when the
\* save button is pressed.
KeyEntries == {"ctrl+shift+s", "Print Screen"}
ColorEntries == {"red", "blue"}
FontEntries == {<<"1", "4">>, <<"x">>}
ThicknessEntries == {<<"3">>, <<"5", "0">>}
RateEntries == {<<"6", "0", ".", "0">>, <<"3", "0">>, <<"a", "b", "c">>}

\* adjust_line_thickness(delta) from the two toolbar buttons: the clamped
\* width, then save_settings.
adjust_line_thickness(delta) ==
    /\ toolbar_shown /\ ~button_down /\ ~color_picker_is_open
    /\ line_thickness' = Max(1, Min(MaxLineThickness, line_thickness + delta))
    /\ settings_file' = SettingsRecord(screenshot_key, current_color, font_size,
                                       line_thickness', refresh_rate)
    /\ UNCHANGED <<lifeVars, guiVars, button_down, imageVars, clipboard, pointVars,
                   areaVars, resizing, dragVars, current_tool, current_color,
                   font_size, screenshot_key, refresh_rate, update_interval,
                   trayVars, the_command, hotkeyVars, stackVars, items, textVars,
                   color_picker_is_open>>

\* save_settings of the settings dialog with the entry texts k, c, f, t, r:
\* the assignments run in order until int() raises (nothing catches it) or
\* float() raises (an error is shown and the handler returns);
\* set_screenshot_key stores every key and returns True.  After the file
\* is written, 1 / refresh_rate raises for a rate of zero; else
\* dialog.destroy() closes the dialog.
save_settings_dialog(k, c, f, t, r) ==
    LET font == ParseInt(f)
        thick == ParseInt(t)
        rate == ParseFloat(r)
    IN  /\ settings_dialog
        /\ settings_dialog' = ~(font.ok /\ thick.ok /\ rate.ok /\ rate.v # 0)
        /\ UNCHANGED <<queue, settings_after, tray_pc, tray_settings, mainloop,
                       the_command, hotkeyVars>>
        /\ screenshot_key' = Lower(k)
        /\ current_color' = c
        /\ font_size' = IF font.ok THEN font.v ELSE font_size
        /\ line_thickness' = IF font.ok /\ thick.ok THEN thick.v ELSE line_thickness
        /\ IF font.ok /\ thick.ok /\ rate.ok
           THEN /\ refresh_rate' = rate.v
                /\ settings_file' = SettingsRecord(Lower(k), c, font.v, thick.v, rate.v)
                /\ update_interval' = IF rate.v = 0 THEN update_interval
                                      ELSE <<10, rate.v>>
           ELSE UNCHANGED <<refresh_rate, settings_file, update_interval>>
        /\ UNCHANGED <<lifeVars, guiVars, button_down, imageVars, clipboard, pointVars,
                       areaVars, resizing, dragVars, current_tool, stackVars, items,
                       textVars, color_picker_is_open>>

(* ------------------------------ tray icon ------------------------------ *)
\* What the session, the tools and the canvas consist of: every variable
\* but the settings and the tray's.
sessionVars == <<lifeVars, guiVars, button_down, imageVars, clipboard, pointVars,
                 areaVars, resizing, dragVars, current_tool, current_color,
                 line_thickness, font_size, stackVars, items, textVars,
                 color_picker_is_open, the_command, hotkeyVars>>

\* open_settings, the callback of the first menu item, run by the thread of
\* icon.run: root.after(0, self.show_settings_dialog).  Nothing is put on
\* self.queue.  (One dialog at a time is followed.)
open_settings ==
    /\ mainloop /\ tray_pc = "menu"
    /\ ~settings_after /\ ~settings_dialog
    /\ settings_after' = TRUE
    /\ UNCHANGED <<sessionVars, settingVars, queue, settings_dialog, tray_pc,
                   tray_settings, mainloop>>

\* show_settings_dialog as the callback root.after scheduled: the dialog is
\* built and shown.
show_settings_dialog ==
    /\ settings_after
    /\ settings_after' = FALSE
    /\ settings_dialog' = TRUE
    /\ UNCHANGED <<sessionVars, settingVars, queue, tray_pc, tray_settings, mainloop>>

\* process_queue, every 100 ms on the event thread: takes one task from
\* self.queue if there is one and shows the settings dialog for
\* "open_settings".
process_queue ==
    /\ IF queue = <<>>
       THEN UNCHANGED <<queue, settings_dialog>>
       ELSE /\ queue' = Tail(queue)
            /\ settings_dialog' = (settings_dialog \/ Head(queue) = "open_settings")
    /\ UNCHANGED <<sessionVars, settingVars, settings_after, tray_pc, tray_settings,
                   mainloop>>

\* safe_quit_app(from_tray=True), the callback of the second menu item, run
\* by the thread of icon.run while the event thread goes on.  First half of
\* save_settings: the dictionary is built from the controller's attributes.
safe_quit_app_save_settings ==
    /\ mainloop /\ tray_pc = "menu"
    /\ tray_pc' = "dump"
    /\ tray_settings' = SettingsRecord(screenshot_key, current_color, font_size,
                                       line_thickness, refresh_rate)
    /\ UNCHANGED <<sessionVars, settingVars, queue, settings_after, settings_dialog,
                   mainloop>>

\* Second half of save_settings on the tray thread: json.dump of the
\* dictionary into settings.json.
safe_quit_app_dump ==
    /\ tray_pc = "dump"
    /\ tray_pc' = "quit"
    /\ settings_file' = tray_settings
    /\ UNCHANGED <<sessionVars, screenshot_key, refresh_rate, update_interval, queue,
                   settings_after, settings_dialog, tray_settings, mainloop>>

\* The end of safe_quit_app on the tray thread: icon.stop() and
\* root.quit(), which makes root.mainloop() return.
safe_quit_app_quit ==
    /\ tray_pc = "quit"
    /\ tray_pc' = "stopped"
    /\ mainloop' = FALSE
    /\ UNCHANGED <<sessionVars, settingVars, queue, settings_after, settings_dialog,
                   tray_settings>>

(* ---------------------------- specification ---------------------------- *)
\* A drawing session: one selection from the corner of the screen, then every
\* tool, undo and redo.  The pointer positions each handler is given:
SelectFrom == {<<0, 0>>}
SelectTo == {<<18, 18>>}
PressAt == {<<10, 10>>}
DragTo == {<<12, 12>>, <<20, 20>>}
BoxTo == {<<12, 12>>}

Next ==
    \/ initiate_screenshot
    \/ _initiate_screenshot_gui
    \/ \E p \in SelectFrom : on_button_press(p)
    \/ \E p \in SelectTo : on_button_release(p, FALSE)
    \/ \E p \in PressAt : on_press(p)
    \/ \E p \in DragTo : on_drag(p)
    \/ \E p \in DragTo : on_release(p)
    \/ \E p \in BoxTo : resize_text_box(p)
    \/ \E p \in BoxTo : finalize_text_box(p)
    \/ \E t \in TypedTexts : on_text_change(t)
    \/ end_text_entry
    \/ undo
    \/ redo
    \/ \E tool \in Tools : set_tool(tool)

Spec == Init /\ [][Next]_vars

\* The two stacks: a drawing session with the tools that commit commands
\* (rectangle, arrow, text), undo and redo, the drawing area staying where
\* it was selected.
NextStack ==
    \/ initiate_screenshot
    \/ _initiate_screenshot_gui
    \/ \E p \in SelectFrom : on_button_press(p)
    \/ \E p \in SelectTo : on_button_release(p, FALSE)
    \/ \E p \in PressAt : on_press(p)
    \/ \E p \in DragTo : on_drag(p)
    \/ \E p \in DragTo : on_release(p)
    \/ \E p \in BoxTo : resize_text_box(p)
    \/ \E p \in BoxTo : finalize_text_box(p)
    \/ \E t \in TypedTexts : on_text_change(t)
    \/ end_text_entry
    \/ undo
    \/ redo
    \/ \E tool \in Tools \ {"move"} : set_tool(tool)

SpecStack == Init /\ [][NextStack]_vars

\* The selection and the drawing area: selections in every direction, with
\* and without a throttled update, then the move tool and the handles.
AreaFrom == {<<4, 4>>, <<12, 12>>}
AreaTo == {<<4, 4>>, <<4, 12>>, <<12, 4>>, <<12, 12>>, <<20, 20>>}
AreaPressAt == {<<4, 4>>, <<8, 8>>, <<20, 20>>}
AreaDragTo == {<<0, 0>>, <<16, 8>>, <<20, 20>>}

NextArea ==
    \/ initiate_screenshot
    \/ _initiate_screenshot_gui
    \/ \E p \in AreaFrom : on_button_press(p)
    \/ \E p \in AreaTo, throttled \in BOOLEAN : on_move_press(p, throttled)
    \/ \E p \in AreaTo, throttled \in BOOLEAN : on_button_release(p, throttled)
    \/ \E p \in AreaPressAt : on_press(p)
    \/ \E p \in AreaDragTo : on_drag(p)
    \/ \E p \in AreaDragTo : on_release(p)

SpecArea == Init /\ [][NextArea]_vars

\* Sessions one after the other: a selection, rectangles, undo and redo, the
\* colour dialog, and the three ways a session ends.
NextSession ==
    \/ initiate_screenshot
    \/ _initiate_screenshot_gui
    \/ \E p \in SelectFrom : on_button_press(p)
    \/ \E p \in SelectTo : on_button_release(p, FALSE)
    \/ \E p \in PressAt : on_press(p)
    \/ \E p \in BoxTo : on_drag(p)
    \/ \E p \in BoxTo : on_release(p)
    \/ undo
    \/ redo
    \/ \E tool \in {"rectangle"} : set_tool(tool)
    \/ open_color_picker
    \/ \E color \in PickColors \cup {""} : color_callback(color)
    \/ handle_escape
    \/ copy_to_clipboard
    \/ reset_tool_state

SpecSession == Init /\ [][NextSession]_vars

\* The handles under every tool: one selection, presses inside the drawing
\* area and on its bottom-right handle with each of the four tools, the
\* text box and the text field.
HandlePressAt == {<<10, 10>>, <<18, 18>>}

NextHandles ==
    \/ initiate_screenshot
    \/ _initiate_screenshot_gui
    \/ \E p \in SelectFrom : on_button_press(p)
    \/ \E p \in SelectTo : on_button_release(p, FALSE)
    \/ \E p \in HandlePressAt : on_press(p)
    \/ \E p \in BoxTo : on_drag(p)
    \/ \E p \in BoxTo : on_release(p)
    \/ \E p \in BoxTo : resize_text_box(p)
    \/ \E p \in BoxTo : finalize_text_box(p)
    \/ \E t \in TypedTexts : on_text_change(t)
    \/ end_text_entry
    \/ \E tool \in Tools : set_tool(tool)

SpecHandles == Init /\ [][NextHandles]_vars

\* Gestures that start inside and outside the drawing area: sessions one
\* after the other with the move and the rectangle tool, each ended by
\* Escape at any moment.
MovePressAt == {<<10, 10>>, <<20, 10>>}

NextMove ==
    \/ initiate_screenshot
    \/ _initiate_screenshot_gui
    \/ \E p \in SelectFrom : on_button_press(p)
    \/ \E p \in SelectTo : on_button_release(p, FALSE)
    \/ \E p \in MovePressAt : on_press(p)
    \/ \E p \in BoxTo : on_drag(p)
    \/ \E p \in BoxTo : on_release(p)
    \/ \E tool \in {"move", "rectangle"} : set_tool(tool)
    \/ handle_escape

SpecMove == Init /\ [][NextMove]_vars

\* Captures and copies that can fail: sessions one after the other in
\* which the monitor enumeration or the screen grab may raise, the
\* clipboard write may raise and a step of the teardown may raise, with
\* rectangles, undo and redo, and the three ways a session ends.
NextCapture ==
    \/ initiate_screenshot
    \/ _initiate_screenshot_gui
    \/ _initiate_screenshot_gui_capture_fails
    \/ \E p \in SelectFrom : on_button_press(p)
    \/ \E p \in SelectTo : on_button_release(p, FALSE)
    \/ \E p \in PressAt : on_press(p)
    \/ \E p \in BoxTo : on_release(p)
    \/ undo
    \/ redo
    \/ \E tool \in {"rectangle"} : set_tool(tool)
    \/ handle_escape
    \/ copy_to_clipboard
    \/ copy_to_clipboard_write_fails
    \/ \E step \in TeardownSteps : copy_to_clipboard_teardown_fails(step)
    \/ reset_tool_state

SpecCapture == Init /\ [][NextCapture]_vars

\* The settings: sessions in which the toolbar changes the stroke width,
\* and the settings dialog saved with every combination of entries.
NextSettings ==
    \/ initiate_screenshot
    \/ _initiate_screenshot_gui
    \/ \E p \in SelectFrom : on_button_press(p)
    \/ \E p \in SelectTo : on_button_release(p, FALSE)
    \/ \E delta \in {0 - 1, 1} : adjust_line_thickness(delta)
    \/ \E k \in KeyEntries, c \in ColorEntries, f \in FontEntries,
          t \in ThicknessEntries, r \in RateEntries :
            save_settings_dialog(k, c, f, t, r)
    \/ handle_escape
    \/ open_settings
    \/ show_settings_dialog

SpecSettings == Init /\ [][NextSettings]_vars

\* The export: sessions up to the first copy that succeeds, with a
\* selection away from the corner of the screen, rectangles, arrows and
\* texts, undo and redo.
ExportFrom == {<<4, 2>>}

NextExport ==
    \/ initiate_screenshot /\ clipboard = <<>>
    \/ _initiate_screenshot_gui
    \/ \E p \in ExportFrom : on_button_press(p)
    \/ \E p \in SelectTo : on_button_release(p, FALSE)
    \/ \E p \in PressAt : on_press(p)
    \/ \E p \in BoxTo : on_release(p)
    \/ \E p \in BoxTo : finalize_text_box(p)
    \/ \E t \in TypedTexts : on_text_change(t)
    \/ end_text_entry
    \/ undo
    \/ redo
    \/ \E tool \in Tools \ {"move"} : set_tool(tool)
    \/ copy_to_clipboard

SpecExport == Init /\ [][NextExport]_vars

\* Arrows along the axes in every stroke width: sessions up to the first
\* copy, the arrow tool, the two stroke width buttons, arrows to the right
\* and upwards with their previews.
ArrowTo == {<<16, 10>>, <<10, 4>>}

NextArrow ==
    \/ initiate_screenshot /\ clipboard = <<>>
    \/ _initiate_screenshot_gui
    \/ \E p \in SelectFrom : on_button_press(p)
    \/ \E p \in SelectTo : on_button_release(p, FALSE)
    \/ \E tool \in {"arrow"} : set_tool(tool)
    \/ \E delta \in {0 - 1, 1} : adjust_line_thickness(delta)
    \/ \E p \in PressAt : on_press(p)
    \/ \E p \in ArrowTo : on_drag(p)
    \/ \E p \in ArrowTo : on_release(p)
    \/ copy_to_clipboard

SpecArrow == Init /\ [][NextArrow]_vars

\* The tray icon beside the event thread: while root.mainloop() runs,
\* sessions are started and cancelled, the stroke width buttons and the
\* settings dialog change the settings, and the tray thread runs its two
\* menu callbacks.
TrayColorEntries == {"blue"}
TrayFontEntries == {<<"1", "4">>}
TrayThicknessEntries == {<<"9">>}
TrayRateEntries == {<<"3", "0">>, <<"a", "b", "c">>}

NextTray ==
    \/ mainloop /\ initiate_screenshot
    \/ mainloop /\ _initiate_screenshot_gui
    \/ mainloop /\ \E p \in SelectFrom : on_button_press(p)
    \/ mainloop /\ \E p \in SelectTo : on_button_release(p, FALSE)
    \/ mainloop /\ \E delta \in {1} : adjust_line_thickness(delta)
    \/ mainloop /\ handle_escape
    \/ mainloop /\ process_queue
    \/ mainloop /\ show_settings_dialog
    \/ mainloop /\ \E k \in KeyEntries, c \in TrayColorEntries, f \in TrayFontEntries,
                      t \in TrayThicknessEntries, r \in TrayRateEntries :
                        save_settings_dialog(k, c, f, t, r)
    \/ open_settings
    \/ safe_quit_app_save_settings
    \/ safe_quit_app_dump
    \/ safe_quit_app_quit

SpecTray == Init /\ [][NextTray]_vars

\* The command classes by themselves: a command is constructed for a
\* canvas that shows nothing yet, and execute(), undo() and redo() are
\* called on it in any order.
CommandColors == {"red", "#0000FF"}
CommandWidths == {1, 2, 3}
CommandEnds == {<<8, 8>>, <<8, 2>>}
NewCommands ==
    {DrawCommand(tool, <<>>, 2, 2, e[1], e[2], color, w) :
        tool \in {"rectangle", "arrow"}, e \in CommandEnds,
        color \in CommandColors, w \in CommandWidths}
    \cup {TextCommand(t, 2, 2, color, 12, e[1], e[2]) :
            t \in TypedTexts, e \in CommandEnds, color \in CommandColors}

InitCommand ==
    /\ state = "drawing"
    /\ is_screenshot_in_progress = FALSE
    /\ is_drawing_mode = TRUE
    /\ pending_gui = FALSE
    /\ rect_canvas = TRUE
    /\ bindings = "none"
    /\ keys_bound = FALSE
    /\ toolbar_shown = FALSE
    /\ button_down = FALSE
    /\ full_screenshot = FALSE
    /\ screenshot = <<>>
    /\ clipboard = <<>>
    /\ start_x = None /\ start_y = None /\ end_x = None /\ end_y = None
    /\ selection_rect = <<>>
    /\ drawing_area = <<>>
    /\ resize_handles = <<>>
    /\ resizing = None
    /\ dragging = FALSE
    /\ drag_start_x = None /\ drag_start_y = None
    /\ current_tool = "move"
    /\ current_color = "red"
    /\ line_thickness = 2
    /\ font_size = 12
    /\ undo_stack = <<>>
    /\ redo_stack = <<>>
    /\ items = <<>>
    /\ text_box = 0
    /\ text_entry = <<>>
    /\ color_picker_is_open = FALSE
    /\ screenshot_key = "print screen"
    /\ refresh_rate = 600
    /\ update_interval = <<10, 600>>
    /\ settings_file = <<>>
    /\ queue = <<>>
    /\ settings_after = FALSE
    /\ settings_dialog = FALSE
    /\ tray_pc = "menu"
    /\ tray_settings = <<>>
    /\ mainloop = TRUE
    /\ the_command \in NewCommands
    /\ hotkey_down = FALSE
    /\ _last_hotkey_state = FALSE

\* Every variable but the canvas and the command.
commandFrame ==
    <<lifeVars, guiVars, button_down, imageVars, clipboard, pointVars, areaVars,
      resizing, dragVars, current_tool, current_color, line_thickness, font_size,
      settingVars, trayVars, hotkeyVars, stackVars, textVars,
      color_picker_is_open>>

\* command.execute(); the canvas takes up to 2 * MaxCmds items.
Command_execute ==
    /\ the_command # <<>>
    /\ Len(items) + 2 <= 2 * MaxCmds
    /\ LET ex == Execute(the_command, items, {})
       IN  /\ items' = ex.items
           /\ the_command' = ex.cmd
    /\ UNCHANGED commandFrame

\* command.undo()
Command_undo ==
    /\ the_command # <<>>
    /\ LET u == UndoCommand(the_command, items)
       IN  /\ items' = u.items
           /\ the_command' = u.cmd
    /\ UNCHANGED commandFrame

\* Command.redo(): self.execute()
Command_redo ==
    /\ the_command # <<>>
    /\ Len(items) + 2 <= 2 * MaxCmds
    /\ LET ex == Execute(the_command, items, {})
       IN  /\ items' = ex.items
           /\ the_command' = ex.cmd
    /\ UNCHANGED commandFrame

NextCommand ==
    \/ Command_execute
    \/ Command_undo
    \/ Command_redo

SpecCommand == InitCommand /\ [][NextCommand]_vars

\* One gesture on the drawing area as it was selected: selections in
\* every direction with every update of the selection rectangle shown,
\* then presses on a handle or inside while the drawing area is still the
\* selected rectangle, and the drag ticks and the release of that gesture.
NextResize ==
    \/ initiate_screenshot
    \/ _initiate_screenshot_gui
    \/ \E p \in AreaFrom : on_button_press(p)
    \/ \E p \in AreaTo : on_move_press(p, FALSE)
    \/ \E p \in AreaTo : on_button_release(p, FALSE)
    \/ \E p \in AreaPressAt : on_press(p) /\ drawing_area = screenshot
    \/ \E p \in AreaDragTo : on_drag(p)
    \/ \E p \in AreaDragTo : on_release(p)

SpecResize == Init /\ [][NextResize]_vars

\* The hotkey: the key pressed, held and released at any moment, polled
\* at any moment, through sessions with rectangles that end by Escape or
\* by a copy.
NextHotkey ==
    \/ press_hotkey
    \/ release_hotkey
    \/ poll_hotkey_state
    \/ initiate_screenshot
    \/ _initiate_screenshot_gui
    \/ \E p \in SelectFrom : on_button_press(p)
    \/ \E p \in SelectTo : on_button_release(p, FALSE)
    \/ \E p \in PressAt : on_press(p)
    \/ \E p \in BoxTo : on_release(p)
    \/ \E tool \in {"rectangle"} : set_tool(tool)
    \/ handle_escape
    \/ copy_to_clipboard

SpecHotkey == Init /\ [][NextHotkey]_vars

\* What leaves the stacks alone: one selection, rectangles with undo and
\* redo, and between them moves of the drawing area, resizes by its
\* bottom-right handle, tool selections, the colour dialog and the stroke
\* width button.
NextFrame ==
    \/ initiate_screenshot
    \/ _initiate_screenshot_gui
    \/ \E p \in SelectFrom : on_button_press(p)
    \/ \E p \in SelectTo : on_button_release(p, FALSE)
    \/ \E p \in HandlePressAt : on_press(p)
    \/ \E p \in BoxTo : on_drag(p)
    \/ \E p \in BoxTo : on_release(p)
    \/ undo
    \/ redo
    \/ \E tool \in {"move", "rectangle"} : set_tool(tool)
    \/ open_color_picker
    \/ \E color \in PickColors \cup {""} : color_callback(color)
    \/ \E delta \in {0 - 1} : adjust_line_thickness(delta)

SpecFrame == Init /\ [][NextFrame]_vars

(* ------------------------------ properties ----------------------------- *)
\* What a command stores apart from the ids of its items.
Stored(cmd) ==
    IF cmd.cls = "DrawCommand" THEN [cmd EXCEPT !.shape_id = <<>>]
    ELSE [cmd EXCEPT !.text_id = 0]
StoredStack(st) == [i \in 1..Len(st) |-> Stored(st[i])]

\* The coordinates a command stores, as its item shows them.
StoredCoords(cmd) ==
    IF cmd.cls = "DrawCommand" THEN <<cmd.x1, cmd.y1, cmd.x2, cmd.y2>>
    ELSE <<cmd.x, cmd.y, cmd.x, cmd.y>>

\* The annotations on the canvas: the items tagged "drawing" that are not
\* a preview, without their ids, each with the number of times it is shown.
Annotations(its) ==
    SelectSeq(its, LAMBDA it : "drawing" \in it.tags /\ "temp_shape" \notin it.tags)
Shown(its) ==
    LET a == Annotations(its)
        strip(it) == [it EXCEPT !.id = 0]
    IN  [x \in {strip(a[i]) : i \in 1..Len(a)} |->
            Cardinality({i \in 1..Len(a) : strip(a[i]) = x})]

\* A step that commits a command: end_draw in on_release, end_text_entry as
\* the focus handler or from start_text_entry in on_press.
CommitStep ==
    /\ \/ \E p \in DragTo : on_release(p)
       \/ end_text_entry
       \/ \E p \in PressAt : on_press(p)
    /\ Len(undo_stack') = Len(undo_stack) + 1

\* C1: a step that commits a command (end_draw, or end_text_entry with a
\* non-empty text) leaves redo_stack empty, whatever it held before, and a
\* redo in the state it leads to changes neither stack nor the canvas.
C1_CommitClearsRedo ==
    [][CommitStep =>
        /\ redo_stack' = <<>>
        /\ LET r == RedoResult(items', undo_stack', redo_stack', text_box')
           IN  /\ r.items = items'
               /\ r.undo_stack = undo_stack'
               /\ r.redo_stack = redo_stack']_vars

\* C1 happens: a shape is about to be committed by a release inside the
\* drawing area while redo_stack holds an undone command.
C1_CommitOverUndone ==
    /\ redo_stack # <<>>
    /\ rect_canvas /\ bindings = "drawing" /\ button_down
    /\ resizing = None /\ current_tool \in {"rectangle", "arrow"}
    /\ start_x # None
    /\ \E p \in DragTo : point_in_drawing_area(p[1], p[2])

\* C2: undo with an empty undo_stack changes nothing; otherwise it removes
\* the last command of undo_stack and only that one, deletes its items from
\* the canvas and appends that same command to redo_stack, the commands
\* below it keeping their order on both stacks and their items.
C2_UndoPopsLast ==
    [][undo =>
        IF undo_stack = <<>>
        THEN UNCHANGED <<undo_stack, redo_stack, items>>
        ELSE LET top == undo_stack[Len(undo_stack)]
             IN  /\ undo_stack' = SubSeq(undo_stack, 1, Len(undo_stack) - 1)
                 /\ Len(redo_stack') = Len(redo_stack) + 1
                 /\ SubSeq(redo_stack', 1, Len(redo_stack)) = redo_stack
                 /\ Stored(redo_stack'[Len(redo_stack')]) = Stored(top)
                 /\ CmdIds(top) \cap ItemIds(items') = {}
                 /\ Annotations(items') =
                        Annotations(CanvasDelete(items, CmdIds(top)))]_vars

\* C2 happens: of two committed commands the second was undone; the first is
\* still on undo_stack and on the canvas, the second on redo_stack with no
\* item.
C2_SecondUndone ==
    /\ state = "drawing"
    /\ Len(undo_stack) = 1 /\ Len(redo_stack) = 1
    /\ CmdIds(undo_stack[1]) # {}
    /\ CmdIds(undo_stack[1]) \subseteq ItemIds(items)
    /\ CmdIds(redo_stack[1]) = {}

\* C3: redo with an empty redo_stack changes nothing; otherwise it removes
\* the last command of redo_stack (the one undone last), renders it again at
\* its stored coordinates with new items on the canvas and appends it to
\* undo_stack, the other commands keeping their order on both stacks.
C3_RedoPopsLast ==
    [][redo =>
        IF redo_stack = <<>>
        THEN UNCHANGED <<undo_stack, redo_stack, items>>
        ELSE LET top == redo_stack[Len(redo_stack)]
                 new == undo_stack'[Len(undo_stack')]
             IN  /\ redo_stack' = SubSeq(redo_stack, 1, Len(redo_stack) - 1)
                 /\ Len(undo_stack') = Len(undo_stack) + 1
                 /\ SubSeq(undo_stack', 1, Len(undo_stack)) = undo_stack
                 /\ Stored(new) = Stored(top)
                 /\ CmdIds(new) # {}
                 /\ CmdIds(new) \cap ItemIds(items) = {}
                 /\ \A id \in CmdIds(new) : \E k \in 1..Len(items') :
                        /\ items'[k].id = id
                        /\ items'[k].c = StoredCoords(top)]_vars

\* C3 happens: two commands were undone and redo is available, so the order
\* in which they come back shows.
C3_TwoUndone ==
    /\ state = "drawing" /\ keys_bound /\ ~color_picker_is_open
    /\ Len(redo_stack) = 2
    /\ Stored(redo_stack[1]) # Stored(redo_stack[2])

\* C4: in a drawing session with a committed command, undo followed at once
\* by redo gives back the same annotations at the same places on the canvas,
\* the same stored commands and the same two stacks, also once the drawing
\* area was moved.
C4_UndoRedoInverse ==
    (state = "drawing" /\ rect_canvas /\ undo_stack # <<>>) =>
        LET u == UndoResult(items, undo_stack, redo_stack)
            r == RedoResult(u.items, u.undo_stack, u.redo_stack, text_box)
        IN  /\ Shown(r.items) = Shown(items)
            /\ StoredStack(r.undo_stack) = StoredStack(undo_stack)
            /\ StoredStack(r.redo_stack) = StoredStack(redo_stack)

\* C5: in a drawing session with no button held, the annotation items on the
\* canvas are the items of the commands of undo_stack: no preview is left,
\* every item tagged "drawing" belongs to a command of undo_stack, every
\* command of undo_stack has its items on the canvas and shares them with
\* no other, and no command of redo_stack has an item.
C5_CanvasIsUndoStack ==
    (state = "drawing" /\ rect_canvas /\ ~button_down) =>
        /\ \A k \in 1..Len(items) : "temp_shape" \notin items[k].tags
        /\ {items[k].id : k \in {j \in 1..Len(items) : "drawing" \in items[j].tags}}
               = StackIds(undo_stack)
        /\ \A i \in 1..Len(undo_stack) :
              /\ CmdIds(undo_stack[i]) # {}
              /\ \A j \in 1..Len(undo_stack) :
                    i # j => CmdIds(undo_stack[i]) \cap CmdIds(undo_stack[j]) = {}
        /\ StackIds(redo_stack) \cap ItemIds(items) = {}

\* Where an item is shown from the top-left corner of the drawing area, and
\* where copy_to_clipboard draws its command from the top-left corner of the
\* cropped area (which lies StrokeWidth inside the composite).
LiveOffset(it) ==
    LET c == IF it.kind = "rectangle"
             THEN Normalize(it.c[1], it.c[2], it.c[3], it.c[4]) ELSE it.c
    IN  <<c[1] - drawing_area[1], c[2] - drawing_area[2],
          c[3] - drawing_area[1], c[4] - drawing_area[2]>>
ExportOffset(cmd) ==
    LET c == ExportShape(cmd, Normalize(drawing_area[1], drawing_area[2],
                                        drawing_area[3], drawing_area[4])).c
    IN  <<c[1] - StrokeWidth, c[2] - StrokeWidth,
          c[3] - StrokeWidth, c[4] - StrokeWidth>>

\* C6: whatever moves the drawing area went through, every committed command
\* stores the coordinates its item is shown at, so copy_to_clipboard draws
\* each shape at the offset from the corner of the area at which the canvas
\* shows it.
C6_ExportWhereShown ==
    (state = "drawing" /\ rect_canvas) =>
        \A i \in 1..Len(undo_stack) : \A k \in 1..Len(items) :
            items[k].id \in CmdIds(undo_stack[i]) =>
                /\ items[k].c = StoredCoords(undo_stack[i])
                /\ LiveOffset(items[k]) = ExportOffset(undo_stack[i])

\* A tick of a move drag with the pointer at p: on_drag or on_release
\* running drag_selection.
MoveTick(p) ==
    /\ dragging /\ current_tool = "move" /\ resizing = None
    /\ on_drag(p) \/ on_release(p)

\* C7: after a tick of a move drag, from whatever drawing area selecting,
\* moving and resizing produced and for whatever pointer delta, the drawing
\* area lies inside the screen and has kept its size; each axis on its own
\* moves by the pointer delta where that keeps the area inside the screen
\* and stops at the edge where it does not.
C7_MoveStaysOnScreen ==
    [][\A p \in AreaDragTo : MoveTick(p) =>
        LET dx == p[1] - drag_start_x
            dy == p[2] - drag_start_y
            a == drawing_area
            b == drawing_area'
        IN  /\ b[1] >= 0 /\ b[2] >= 0 /\ b[3] <= ScreenW /\ b[4] <= ScreenH
            /\ b[3] - b[1] = a[3] - a[1]
            /\ b[4] - b[2] = a[4] - a[2]
            /\ b[1] = (IF a[1] + dx < 0 THEN 0
                       ELSE IF a[3] + dx > ScreenW THEN ScreenW - (a[3] - a[1])
                       ELSE a[1] + dx)
            /\ b[2] = (IF a[2] + dy < 0 THEN 0
                       ELSE IF a[4] + dy > ScreenH THEN ScreenH - (a[4] - a[2])
                       ELSE a[2] + dy)]_vars

\* C7 happens: in the middle of a move drag a tick with the pointer in the
\* corner of the screen has pushed the drawing area against the left and
\* the top edge.
C7_MovedToTheEdge ==
    /\ state = "drawing" /\ dragging /\ button_down /\ current_tool = "move"
    /\ drag_start_x = 0 /\ drag_start_y = 0
    /\ drawing_area[1] = 0 /\ drawing_area[2] = 0
    /\ drawing_area[3] > 0 /\ drawing_area[4] > 0

\* C8: whenever a drawing area exists it is stored with x1 <= x2 and
\* y1 <= y2, whichever way the selection was dragged and whatever moves and
\* resizes followed.
C8_AreaNormalized ==
    drawing_area # <<>> =>
        /\ drawing_area[1] <= drawing_area[3]
        /\ drawing_area[2] <= drawing_area[4]

\* C8 happens: the selection was dragged up and to the left and the drawing
\* area made from it is in drawing mode.
C8_SelectedBackwards ==
    /\ state = "drawing" /\ resizing = None /\ ~dragging
    /\ start_x > end_x /\ start_y > end_y
    /\ drawing_area = <<end_x, end_y, start_x, start_y>>

\* C9: the rectangle on_button_release crops and hands to drawing mode is at
\* least one pixel wide and one pixel high, also for a selection of zero
\* width or zero height.
C9_CropNotEmpty ==
    screenshot # <<>> =>
        /\ screenshot[3] - screenshot[1] >= 1
        /\ screenshot[4] - screenshot[2] >= 1

\* C10: a step of handle_escape taken in state selecting or drawing with no
\* colour picker open leaves the state idle, the two images released and
\* both stacks empty.
C10_EscapeClearsSession ==
    [][(handle_escape /\ state \in {"selecting", "drawing"}
                      /\ ~color_picker_is_open) =>
        /\ state' = "idle"
        /\ full_screenshot' = FALSE
        /\ screenshot' = <<>>
        /\ undo_stack' = <<>>
        /\ redo_stack' = <<>>]_vars

\* C11: a step of handle_escape taken while the colour picker is open
\* closes the picker and nothing else: the session state, the two images,
\* the canvas, the drawing area and both stacks are as before, so the
\* session is still there for a second Escape to cancel.
C11_EscapeClosesPickerOnly ==
    [][(handle_escape /\ color_picker_is_open) =>
        /\ color_picker_is_open' = FALSE
        /\ state' = state
        /\ UNCHANGED <<full_screenshot, screenshot, rect_canvas, items,
                       drawing_area, resize_handles, undo_stack, redo_stack>>]_vars

\* C11 happens: the colour picker is open in a drawing session that has a
\* committed command.
C11_PickerOpenWhileDrawing ==
    /\ color_picker_is_open
    /\ state = "drawing" /\ rect_canvas /\ full_screenshot
    /\ undo_stack # <<>>

\* C12: a step of copy_to_clipboard in drawing mode, or of the close button,
\* leaves the state idle, the two images released, no drawing area, no
\* resize handle and both stacks empty.
C12_CopyOrCloseClearsSession ==
    [][((copy_to_clipboard /\ is_drawing_mode) \/ reset_tool_state) =>
        /\ state' = "idle"
        /\ full_screenshot' = FALSE
        /\ screenshot' = <<>>
        /\ drawing_area' = <<>>
        /\ resize_handles' = <<>>
        /\ undo_stack' = <<>>
        /\ redo_stack' = <<>>]_vars

\* C12 happens: a session with a committed command was ended by a copy; its
\* composite is on the clipboard and nothing of the session is left.
C12_CopiedAndIdle ==
    /\ state = "idle" /\ ~pending_gui /\ ~rect_canvas
    /\ clipboard # <<>> /\ Len(clipboard.shapes) >= 1
    /\ drawing_area = <<>> /\ undo_stack = <<>> /\ redo_stack = <<>>

\* C13: a step that takes a session into the drawing state finds both
\* stacks empty, whatever the sessions before it committed or undid and
\* however they ended.
C13_DrawingStartsEmpty ==
    [][(state # "drawing" /\ state' = "drawing") =>
        /\ undo_stack' = <<>>
        /\ redo_stack' = <<>>]_vars

\* C13 happens: a session is in the drawing state with nothing committed
\* after an earlier session that committed a command and ended by a copy.
C13_SecondSessionDrawing ==
    /\ state = "drawing" /\ rect_canvas /\ ~button_down
    /\ clipboard # <<>> /\ Len(clipboard.shapes) >= 1
    /\ undo_stack = <<>> /\ redo_stack = <<>> /\ items = <<>>

\* C14: a step of end_text_entry removes the text field and every dashed
\* box; with an empty text both stacks stay as they are, with a non-empty
\* text exactly one TextCommand carrying that text is appended to
\* undo_stack.
C14_EmptyTextCommitsNothing ==
    [][end_text_entry =>
        /\ text_entry' = <<>>
        /\ \A k \in 1..Len(items') : "text_box" \notin items'[k].tags
        /\ IF text_entry.text = ""
           THEN UNCHANGED <<undo_stack, redo_stack>>
           ELSE /\ Len(undo_stack') = Len(undo_stack) + 1
                /\ SubSeq(undo_stack', 1, Len(undo_stack)) = undo_stack
                /\ undo_stack'[Len(undo_stack')].cls = "TextCommand"
                /\ undo_stack'[Len(undo_stack')].text = text_entry.text]_vars

\* C14 happens: a text field is open with nothing typed, its dashed box on
\* the canvas, while each stack holds a command.
C14_EmptyFieldOpen ==
    /\ state = "drawing" /\ text_entry # <<>> /\ text_entry.alive
    /\ text_entry.text = ""
    /\ \E k \in 1..Len(items) : "text_box" \in items[k].tags
    /\ undo_stack # <<>> /\ redo_stack # <<>>

\* The test of the handle loop for one handle: (x, y) lies in the square of
\* handle number i (1..4 in resize_handles, index i - 1 in the code).
OnHandle(i, x, y) ==
    /\ i \in 1..Len(resize_handles)
    /\ resize_handles[i][1] <= x /\ x <= resize_handles[i][3]
    /\ resize_handles[i][2] <= y /\ y <= resize_handles[i][4]

\* A press at p that reaches start_text_entry inside the drawing area.
TextPress(p) ==
    /\ current_tool = "text"
    /\ point_in_drawing_area(p[1], p[2])
    /\ \A i \in 1..Len(resize_handles) : ~OnHandle(i, p[1], p[2])
    /\ on_press(p)

\* C16: a press that starts a text entry while a text field is open first
\* ends that edit: a non-empty text is appended to undo_stack as a
\* TextCommand and redo_stack is cleared, an empty text leaves both stacks
\* as they are; the old field is gone and the only dashed box is the new
\* one.  No release opens a text field over one that is still open.
C16_NewEntryEndsOpenEdit ==
    [][/\ \A p \in PressAt :
            (text_entry # <<>> /\ TextPress(p)) =>
                /\ text_entry' = <<>>
                /\ Cardinality({k \in 1..Len(items') :
                                   "text_box" \in items'[k].tags}) = 1
                /\ items'[Len(items')].id = text_box'
                /\ IF text_entry.text = ""
                   THEN UNCHANGED <<undo_stack, redo_stack>>
                   ELSE /\ undo_stack' = Append(undo_stack,
                                            undo_stack'[Len(undo_stack')])
                        /\ undo_stack'[Len(undo_stack')].cls = "TextCommand"
                        /\ undo_stack'[Len(undo_stack')].text = text_entry.text
                        /\ redo_stack' = <<>>
       /\ \A p \in BoxTo : finalize_text_box(p) => text_entry = <<>>]_vars

\* C16 happens: with the text tool current, a text field holding a typed
\* text is open over an undone command, and the button is up for the next
\* press.
C16_TypedFieldOpen ==
    /\ state = "drawing" /\ current_tool = "text"
    /\ bindings = "drawing" /\ ~button_down
    /\ text_entry # <<>> /\ text_entry.alive /\ text_entry.text # ""
    /\ redo_stack # <<>>
    /\ \E p \in PressAt : ENABLED TextPress(p)

\* The handles whose square contains the point p.
HandlesAt(p) == {i \in 1..Len(resize_handles) : OnHandle(i, p[1], p[2])}

\* The corner of the drawing area that handle number i (1..4) marks:
\* top-left, top-right, bottom-right, bottom-left.
Corner(i) ==
    IF i = 1 THEN <<drawing_area[1], drawing_area[2]>>
    ELSE IF i = 2 THEN <<drawing_area[3], drawing_area[2]>>
    ELSE IF i = 3 THEN <<drawing_area[3], drawing_area[4]>>
    ELSE <<drawing_area[1], drawing_area[4]>>

\* C18: the handles stand in the order top-left, top-right, bottom-right,
\* bottom-left around the corners of the drawing area, and a press starts
\* the resize of the lowest-numbered handle whose square contains the
\* pointer, or no resize when no square contains it.
C18_FirstMatchingHandle ==
    [][\A p \in AreaPressAt : on_press(p) =>
          /\ Len(resize_handles) = 4
          /\ \A i \in 1..4 :
                /\ resize_handles[i][1] + resize_handles[i][3] = 2 * Corner(i)[1]
                /\ resize_handles[i][2] + resize_handles[i][4] = 2 * Corner(i)[2]
          /\ IF HandlesAt(p) = {}
             THEN resizing' = None
             ELSE /\ resizing' + 1 \in HandlesAt(p)
                  /\ \A j \in HandlesAt(p) : resizing' + 1 <= j]_vars

\* C18 happens: a press started the resize of handle 0 of a drawing area so
\* small that every pointer position on handle 0 is on another handle too.
C18_OverlappingHit ==
    /\ state = "drawing" /\ button_down /\ resizing = 0
    /\ \E p \in AreaPressAt : 1 \in HandlesAt(p)
    /\ \A p \in AreaPressAt : 1 \in HandlesAt(p) => Cardinality(HandlesAt(p)) >= 2

\* The four sub-modes of a drawing session, as the handlers tell them
\* apart: the dragging flag, the resizing index, a shape gesture that
\* on_drag hands to draw_shape, and an open text field.
Moving == dragging
Resizing == resizing # None
DrawingShape ==
    /\ bindings = "drawing" /\ button_down
    /\ resizing = None
    /\ current_tool \in {"rectangle", "arrow"}
    /\ start_x # None
EditingText == text_entry # <<>> /\ text_entry.alive

ActiveSubModes ==
    {m \in {"moving", "resizing", "drawingShape", "editingText"} :
        \/ m = "moving" /\ Moving
        \/ m = "resizing" /\ Resizing
        \/ m = "drawingShape" /\ DrawingShape
        \/ m = "editingText" /\ EditingText}

\* C15: in every state of a drawing session at most one of the sub-modes
\* moving, resizing, drawingShape and editingText is active.
C15_OneSubMode ==
    state = "drawing" => Cardinality(ActiveSubModes) <= 1

\* C17: a press on a resize handle starts the resize of that handle
\* whichever tool is current, and starts nothing else: the dragging flag
\* and the drag start point, the shape start point, the canvas items, the
\* text box, the text field, the bindings and both stacks are as before.
C17_HandleBeforeTool ==
    [][\A p \in HandlePressAt :
          (HandlesAt(p) # {} /\ on_press(p)) =>
              /\ resizing' + 1 \in HandlesAt(p)
              /\ UNCHANGED <<dragging, drag_start_x, drag_start_y,
                             start_x, start_y, items, text_box, text_entry,
                             bindings, undo_stack, redo_stack>>]_vars

\* C17 happens: with the move tool current, a press on a handle at a point
\* that is also inside the drawing area started a resize and no move.
C17_HandlePressedWithMoveTool ==
    /\ state = "drawing" /\ button_down
    /\ current_tool = "move"
    /\ resizing # None /\ ~dragging
    /\ \E p \in HandlePressAt :
          /\ resizing + 1 \in HandlesAt(p)
          /\ point_in_drawing_area(p[1], p[2])

\* A press that enters the move sub-mode: move tool, the pointer inside the
\* drawing area and on no handle.
MovePress(p) ==
    /\ current_tool = "move"
    /\ point_in_drawing_area(p[1], p[2])
    /\ HandlesAt(p) = {}
    /\ on_press(p)

\* A drag or release of the held button can translate the drawing area.
CanTranslate ==
    /\ button_down /\ resizing = None
    /\ \E q \in BoxTo :
          \/ ENABLED (on_drag(q) /\ drawing_area' # drawing_area)
          \/ ENABLED (on_release(q) /\ drawing_area' # drawing_area)

\* C19: the drawing area is translated only by a gesture that entered the
\* move sub-mode.  A press outside the drawing area, or with another tool,
\* that hits no handle starts a gesture whose drags and release leave the
\* drawing area where it is; and no step without the move tool and the
\* dragging flag translates it.
C19_MoveOnlyFromInside ==
    [][/\ \A p \in MovePressAt :
            (on_press(p) /\ ~MovePress(p) /\ HandlesAt(p) = {}) =>
                ~CanTranslate'
       /\ (state = "drawing" /\ state' = "drawing"
             /\ drawing_area' # drawing_area /\ resizing = None) =>
                (dragging /\ current_tool = "move")]_vars

\* C20: every DrawCommand a release commits has its start point (x1, y1)
\* inside the drawing area of the gesture.
C20_ShapeStartsInside ==
    [][\A q \in BoxTo :
          (on_release(q) /\ Len(undo_stack') = Len(undo_stack) + 1) =>
              /\ undo_stack'[Len(undo_stack')].cls = "DrawCommand"
              /\ point_in_drawing_area(undo_stack'[Len(undo_stack')].x1,
                                       undo_stack'[Len(undo_stack')].y1)]_vars

\* A rectangle or arrow gesture is in progress: the button is held since a
\* press that start_draw took, and on_release will hand the release to
\* end_draw.
ShapeGesture ==
    /\ state = "drawing" /\ bindings = "drawing" /\ button_down
    /\ resizing = None
    /\ current_tool \in {"rectangle", "arrow"}
    /\ start_x # None

\* C21: every release that ends a rectangle or arrow gesture appends
\* exactly one DrawCommand from the press point to the release point to
\* undo_stack, leaves no item tagged temp_shape on the canvas and resets
\* the start point.
C21_ReleaseCommitsShape ==
    [][\A q \in DragTo :
          (ShapeGesture /\ on_release(q)) =>
              /\ Len(undo_stack') = Len(undo_stack) + 1
              /\ SubSeq(undo_stack', 1, Len(undo_stack)) = undo_stack
              /\ StoredCoords(undo_stack'[Len(undo_stack')]) =
                    <<start_x + drawing_area[1], start_y + drawing_area[2],
                      q[1], q[2]>>
              /\ \A k \in 1..Len(items') : "temp_shape" \notin items'[k].tags
              /\ start_x' = None /\ start_y' = None]_vars

\* C22: a capture start in which the monitor enumeration or the screen
\* grab fails ends in state idle with no in-progress flag, no canvas and
\* no captured image, and a capture request is accepted again.
C22_FailedCaptureAborts ==
    [][_initiate_screenshot_gui_capture_fails =>
          /\ state' = "idle"
          /\ ~is_screenshot_in_progress'
          /\ ~rect_canvas'
          /\ ~full_screenshot' /\ screenshot' = <<>>
          /\ (ENABLED initiate_screenshot)']_vars

\* The entries hold a value that int() or float() rejects.
InvalidEntries(f, t, r) ==
    ~ParseInt(f).ok \/ ~ParseInt(t).ok \/ ~ParseFloat(r).ok

\* C23: a save of the settings dialog with an invalid entry leaves the
\* hotkey, the colour, the font size, the stroke width, the refresh rate
\* and the update interval as they were and writes nothing to the
\* settings file.
C23_InvalidSaveChangesNothing ==
    [][\A k \in KeyEntries, c \in ColorEntries, f \in FontEntries,
          t \in ThicknessEntries, r \in RateEntries :
            (InvalidEntries(f, t, r) /\ save_settings_dialog(k, c, f, t, r)) =>
                UNCHANGED <<screenshot_key, current_color, font_size,
                            line_thickness, refresh_rate, update_interval,
                            settings_file>>]_vars

\* C26: in every state the stroke width is an integer from 1 to
\* max_line_thickness.
C26_StrokeWidthInRange ==
    line_thickness \in 1..MaxLineThickness

\* C24: a copy whose clipboard write fails leaves the session as it is:
\* the state is still drawing, both stacks, the drawing area, the canvas
\* and the captured images are unchanged, and a copy is possible again.
C24_FailedCopyKeepsSession ==
    [][copy_to_clipboard_write_fails =>
          /\ state' = "drawing"
          /\ UNCHANGED <<undo_stack, redo_stack, drawing_area, resize_handles,
                         full_screenshot, screenshot, rect_canvas, items>>
          /\ (is_drawing_mode /\ ENABLED copy_to_clipboard)']_vars

\* C24 happens: a drawing session with a committed and an undone command,
\* after an earlier session filled the clipboard, in which a copy can fail.
C24_CopyCanFail ==
    /\ state = "drawing" /\ is_drawing_mode /\ full_screenshot
    /\ undo_stack # <<>> /\ redo_stack # <<>>
    /\ clipboard # <<>>
    /\ ENABLED copy_to_clipboard_write_fails

\* A rectangle of four coordinates moved by (dx, dy).
Shifted(c, dx, dy) == <<c[1] + dx, c[2] + dy, c[3] + dx, c[4] + dy>>

\* The corner-independent form of four coordinates.
Box(c) == Normalize(c[1], c[2], c[3], c[4])

\* C27: a copy in drawing mode composes one shape per command of
\* undo_stack, oldest first, each at its stored coordinates moved by
\* (-cropLeft + 1, -cropTop + 1), where (cropLeft, cropTop) is the top-left
\* corner of the normalized drawing area; the commands of redo_stack add
\* nothing.
C27_ExportIsUndoStack ==
    [][(copy_to_clipboard /\ is_drawing_mode) =>
          LET dx == StrokeWidth - Min(drawing_area[1], drawing_area[3])
              dy == StrokeWidth - Min(drawing_area[2], drawing_area[4])
              out == clipboard'.shapes
          IN  /\ Len(out) = Len(undo_stack)
              /\ \A i \in 1..Len(undo_stack) :
                    LET cmd == undo_stack[i]
                        at == Shifted(StoredCoords(cmd), dx, dy)
                    IN  /\ out[i].color = cmd.color
                        /\ IF cmd.cls = "TextCommand"
                           THEN /\ out[i].kind = "text"
                                /\ out[i].text = cmd.text
                                /\ out[i].c = at
                           ELSE /\ out[i].kind = cmd.tool
                                /\ out[i].width = cmd.thickness
                                /\ IF cmd.tool = "arrow"
                                   THEN out[i].c = at
                                   ELSE out[i].c = Box(at)]_vars

\* C27 happens: a copy of a drawing area whose corner is not the corner of
\* the screen put two shapes of different kinds on the clipboard.
C27_TwoKindsExported ==
    /\ state = "idle" /\ clipboard # <<>>
    /\ Len(clipboard.shapes) = 2
    /\ clipboard.shapes[1].kind # clipboard.shapes[2].kind
    /\ \A p \in ExportFrom : p[1] > 0 /\ p[2] > 0

\* C28: the composite a copy puts on the clipboard is the same whatever the
\* current colour is: it depends on the captured image, the drawing area
\* and the commands of undo_stack only.
C28_ExportIgnoresCurrentColor ==
    [][(copy_to_clipboard /\ is_drawing_mode) =>
          \A c \in PickColors \cup {"red"} :
              clipboard' = Composite(undo_stack, drawing_area, c)]_vars

\* C25: a teardown in which one step fails still ends in state idle with
\* both stacks empty, no captured image, no drawing area, no text field,
\* no resize handle and no resize in progress.
C25_TeardownAlwaysCompletes ==
    [][\A step \in TeardownSteps :
          copy_to_clipboard_teardown_fails(step) =>
              /\ state' = "idle"
              /\ undo_stack' = <<>> /\ redo_stack' = <<>>
              /\ ~full_screenshot' /\ screenshot' = <<>>
              /\ drawing_area' = <<>>
              /\ text_entry' = <<>>
              /\ resize_handles' = <<>>
              /\ resizing' = None]_vars

\* The arrows on the canvas: each is a "line" item followed by its
\* "polygon" item.
ArrowItems == {k \in 1..Len(items) : items[k].kind = "line" /\ AxisAligned(items[k].c)}

\* The components of the vector from p2 = (c[3], c[4]) to the point q along
\* the shaft direction and across it (angle in steps of 30 degrees).
Along(q, c, angle) ==
    (q[1] - 1000 * c[3]) * Cos1000(angle) + (q[2] - 1000 * c[4]) * Sin1000(angle)
Across(q, c, angle) ==
    (q[2] - 1000 * c[4]) * Cos1000(angle) - (q[1] - 1000 * c[3]) * Sin1000(angle)

\* C29: every committed arrow along an axis, with endpoints p1, p2 and
\* width w, has its shaft from p1 to the point max(3w, 8) before p2, the
\* apex of its head at p2, and the two base corners of the head mirrored
\* about the shaft line.
C29_CommittedArrowGeometry ==
    \A k \in ArrowItems :
        items[k].by = "execute" =>
            LET c == items[k].c
                g == CanvasArrow(items[k])
                length == Max(items[k].width * 3, 8)
                angle == Atan2Axis(c[4] - c[2], c[3] - c[1])
            IN  /\ g.shaft = <<1000 * c[1], 1000 * c[2],
                               1000 * c[3] - length * Cos1000(angle),
                               1000 * c[4] - length * Sin1000(angle)>>
                /\ g.head[1] = <<1000 * c[3], 1000 * c[4]>>
                /\ Along(g.head[2], c, angle) = Along(g.head[3], c, angle)
                /\ Across(g.head[2], c, angle) = 0 - Across(g.head[3], c, angle)

\* An arrow moved by (dx, dy) pixels.
ShiftedArrow(g, dx, dy) ==
    [shaft |-> <<g.shaft[1] + 1000 * dx, g.shaft[2] + 1000 * dy,
                 g.shaft[3] + 1000 * dx, g.shaft[4] + 1000 * dy>>,
     head |-> [j \in 1..3 |-> <<g.head[j][1] + 1000 * dx, g.head[j][2] + 1000 * dy>>]]

\* C30: every arrow on the canvas along an axis, the preview of a drag or
\* a committed one, moved by the translation of the export, is the arrow
\* the export draws for the same endpoints and width: same shaft, same
\* apex, same base corners.
C30_ExportedArrowAsShown ==
    state = "drawing" =>
        \A k \in ArrowItems :
            LET dx == StrokeWidth - Min(drawing_area[1], drawing_area[3])
                dy == StrokeWidth - Min(drawing_area[2], drawing_area[4])
            IN  ShiftedArrow(CanvasArrow(items[k]), dx, dy) =
                    draw_pil_arrow(Shifted(items[k].c, dx, dy), items[k].width)

\* A step of the tray thread: one of its two menu callbacks, or a further
\* step of the second.
TrayThreadStep ==
    \/ open_settings
    \/ safe_quit_app_save_settings
    \/ safe_quit_app_dump
    \/ safe_quit_app_quit

\* C31: single writer.  A step of the tray thread writes no state of the
\* controller and makes no call into the GUI: the session, the settings,
\* settings.json, the settings dialog and the running main loop are as
\* before; it only hands an intent to the event thread (an item on
\* self.queue or a callback scheduled for the event loop) and moves on in
\* its own callback.
C31_TrayOnlyEnqueues ==
    [][TrayThreadStep =>
          UNCHANGED <<sessionVars, settingVars, settings_dialog, mainloop>>]_vars

\* The number of canvas items one rendering of a command consists of.
RenderingSize(cmd) ==
    IF cmd.cls = "DrawCommand" /\ cmd.tool = "arrow" THEN 2 ELSE 1

\* C32: execute() is idempotent in effect.  On a canvas that only the
\* command draws on, whatever calls of execute(), undo() and redo() were
\* made, the canvas holds at most one rendering of the command, and it
\* holds nothing when the command's last call was undo() (the command
\* names no live item).
C32_ExecuteIdempotent ==
    /\ Len(items) <= RenderingSize(the_command)
    /\ CmdIds(the_command) = {} => items = <<>>

\* C33: in every state of a drawing session there are exactly four resize
\* handles, and handle i is centred on corner i of the drawing area (top
\* left, top right, bottom right, bottom left): on entry to drawing mode
\* and after every move tick and every resize tick.
C33_HandlesOnCorners ==
    state = "drawing" =>
        /\ Len(resize_handles) = 4
        /\ \A i \in 1..4 :
              /\ resize_handles[i][1] + resize_handles[i][3] = 2 * Corner(i)[1]
              /\ resize_handles[i][2] + resize_handles[i][4] = 2 * Corner(i)[2]

\* A resize gesture in progress that has changed the drawing area: it is
\* no longer the rectangle that was cropped on entry to drawing mode.
C33_AreaResized ==
    /\ state = "drawing" /\ button_down /\ resizing # None
    /\ drawing_area # screenshot

\* The corner of the rectangle c diagonally opposite to the corner of
\* handle r (0..3), and the four corners of c.
OppositeCorner(c, r) ==
    IF r = 0 THEN <<c[3], c[4]>>
    ELSE IF r = 1 THEN <<c[1], c[4]>>
    ELSE IF r = 2 THEN <<c[1], c[2]>>
    ELSE <<c[3], c[2]>>
CornersOf(c) == {<<c[1], c[2]>>, <<c[3], c[2]>>, <<c[3], c[4]>>, <<c[1], c[4]>>}

\* C34: during a resize gesture with handle i the corner diagonally
\* opposite to handle i in the rectangle as it was at pointer-down stays a
\* corner of the drawing area, also after the pointer was dragged past the
\* opposite edge.  (The gesture starts on the drawing area as selected,
\* which the crop box `screenshot` keeps.)
C34_OppositeCornerFixed ==
    (state = "drawing" /\ button_down /\ resizing # None) =>
        OppositeCorner(screenshot, resizing) \in CornersOf(drawing_area)

\* C35: a capture request is accepted in state idle only.  A poll of the
\* hotkey or a call of initiate_screenshot handled in state selecting or
\* drawing changes neither the state, the captured image, the drawing area
\* nor a stack; and a poll starts a session only for a press it had not
\* seen yet, which it then remembers, so that the hotkey held down over
\* several polls starts one session at most.
C35_CaptureOnlyWhenIdle ==
    [][/\ ((poll_hotkey_state \/ initiate_screenshot)
              /\ state \in {"selecting", "drawing"})
            => UNCHANGED <<state, pending_gui, imageVars, drawing_area, stackVars,
                           items>>
       /\ (poll_hotkey_state /\ state' # state)
            => (/\ state = "idle" /\ state' = "selecting"
                /\ hotkey_down /\ ~_last_hotkey_state /\ _last_hotkey_state')]_vars

\* The hotkey is pressed, and not yet seen by a poll, in a drawing session
\* with a committed shape.
C35_PressedWhileDrawing ==
    /\ state = "drawing" /\ undo_stack # <<>>
    /\ hotkey_down /\ ~_last_hotkey_state

\* C36: a cancel between the accepted capture request and its deferred GUI
\* set-up is not lost.  The state is idle while the set-up is still
\* pending only after such a cancel; when the set-up callback then runs,
\* the state stays idle, no capture window is shown and no screenshot is
\* in progress.
C36_CancelBeforeSetupHolds ==
    [][(_initiate_screenshot_gui /\ state = "idle")
          => (state' = "idle" /\ ~rect_canvas' /\ ~is_screenshot_in_progress')]_vars

\* C37: in every state of a drawing session the selection rectangle shown
\* on the canvas has the coordinates of the stored drawing area, also when
\* the throttle skipped the last update_selection before the session
\* entered drawing mode (so that a resize tick, which starts from the
\* rectangle shown, starts from the drawing area).
C37_ShownRectIsDrawingArea ==
    state = "drawing" => selection_rect = drawing_area

\* C38: whenever the state is idle no interaction is left pending: there
\* is no text field (text_entry is None), the dragging flag is false and
\* no resize is in progress, whichever way the session ended.
C38_IdleHasNoSubMode ==
    state = "idle" => (text_entry = <<>> /\ ~dragging /\ resizing = None)

\* A tick of a move drag or of a resize drag, a tool selection, a colour
\* change or a stroke width change.
FrameStep ==
    \/ \E p \in BoxTo :
          /\ (dragging /\ current_tool = "move") \/ resizing # None
          /\ on_drag(p) \/ on_release(p)
    \/ \E tool \in Tools : set_tool(tool)
    \/ \E color \in PickColors \cup {""} : color_callback(color)
    \/ \E delta \in {0 - 1, 1} : adjust_line_thickness(delta)

\* C39: a tick of a move drag keeps the width and the height of the
\* drawing area, and neither a move, a resize, a tool selection, a colour
\* change nor a stroke width change alters the commands of the undo stack
\* or of the redo stack or their order.
C39_MoveResizeToolFrame ==
    [][/\ (\E p \in BoxTo : MoveTick(p)) =>
              /\ drawing_area'[3] - drawing_area'[1] = drawing_area[3] - drawing_area[1]
              /\ drawing_area'[4] - drawing_area'[2] = drawing_area[4] - drawing_area[2]
       /\ FrameStep => UNCHANGED <<undo_stack, redo_stack>>]_vars

\* In the middle of a move drag that has shifted the drawing area, with a
\* command on each stack.
C39_MovedWithBothStacks ==
    /\ state = "drawing" /\ dragging /\ button_down /\ current_tool = "move"
    /\ drawing_area # screenshot
    /\ undo_stack # <<>> /\ redo_stack # <<>>

\* C40: a copy request handled while the session is not in drawing mode
\* (state idle or selecting) publishes nothing and leaves the state, the
\* images, the stacks and the canvas as they are; a copy handled in state
\* drawing publishes the composite of the session and ends the session,
\* after which a further request finds no drawing mode to publish from.
C40_CopyOnlyInDrawingMode ==
    [][/\ (copy_to_clipboard /\ state \in {"idle", "selecting"})
            => UNCHANGED <<clipboard, lifeVars, imageVars, stackVars, items>>
       /\ (copy_to_clipboard /\ state = "drawing")
            => /\ clipboard' = Composite(undo_stack, drawing_area, current_color)
               /\ state' = "idle" /\ ~is_drawing_mode' /\ ~rect_canvas']_vars

\* A later session is selecting, with Ctrl+C bound, while the clipboard
\* holds what an earlier session published.
C40_SelectingAfterCopy ==
    /\ state = "selecting" /\ rect_canvas /\ keys_bound /\ ~color_picker_is_open
    /\ clipboard # <<>>
====
